---- MODULE Spec2Model ----
(***************************************************************************)
(* A model of specalyzer: the build-tool classifier of specupVersion.js,   *)
(* the repository resolvers of specConfig.js and repoUrl.js, the manifest  *)
(* locator, and the analysis run of analyzer.js.                           *)
(*                                                                         *)
(* JavaScript values are records tagged with their type.  A string holds   *)
(* the sequence of its characters, so that includes(), toLowerCase(),      *)
(* template literals and the regular expressions are computed character by *)
(* character.  Property names (the keys of an object) are TLA+ strings:    *)
(* the code only ever looks them up by their exact name.                   *)
(*                                                                         *)
(* SpecFn applies the exported functions to arguments drawn from bounded   *)
(* sets.  Spec is one run of analyzeSpec: every await of the run is a step *)
(* that takes the answer of the network from a bounded set of answers.     *)
(***************************************************************************)
EXTENDS Naturals, Sequences, FiniteSets, TLC

VARIABLES
    fn,             \* the exported function a direct call applies ("none" during an analysis run)
    arg,            \* the argument of that call
    ret,            \* what the call returned ([type |-> "pending"] before it returns)
    pc,             \* where the run of analyzeSpec stands ("idle" during direct calls)
    run,            \* the argument and the local variables of the run (see NewRun)
    requests,       \* the requests sent so far, in order
    responses,      \* the answers received so far: responses[i] answers requests[i]
    cli             \* the command line: its argument, the report and the exit code (see NewCli)

call == <<fn, arg, ret>>
vars == <<fn, arg, ret, pc, run, requests, responses, cli>>

----------------------------------------------------------------------------
(* JavaScript values *)

Undefined == [type |-> "undefined"]
Null == [type |-> "null"]
Str(s) == [type |-> "string", str |-> s]
Obj(f) == [type |-> "object", obj |-> f]
Arr(s) == [type |-> "array", items |-> s]
Pending == [type |-> "pending"]

\* o.k : undefined when o has no such property (or is no object)
Get(o, k) == IF o.type = "object" /\ k \in DOMAIN o.obj THEN o.obj[k] ELSE Undefined

\* the truthiness that if (...), && and || test
Truthy(v) ==
    CASE v.type = "undefined" -> FALSE
      [] v.type = "null" -> FALSE
      [] v.type = "string" -> v.str # <<>>
      [] OTHER -> TRUE

\* a && b and a || b on values
AndThen(a, b) == IF Truthy(a) THEN b ELSE a
OrElse(a, b) == IF Truthy(a) THEN a ELSE b

\* haystack.includes(needle) on character sequences
Includes(haystack, needle) ==
    \E i \in 0..(Len(haystack) - Len(needle)) :
        SubSeq(haystack, i + 1, i + Len(needle)) = needle

\* s.includes(needle) for a value s the code has found truthy (a string)
StrIncludes(s, needle) == s.type = "string" /\ Includes(s.str, needle)

----------------------------------------------------------------------------
(* specupVersion.js: the build-tool classifier *)

SpecUpName == <<"s", "p", "e", "c", "-", "u", "p">>

\* 'node -e \"require(\'./index\')' : node -e "require('./index')
ScriptSignature ==
    <<"n", "o", "d", "e", " ", "-", "e", " ", "\"", "r", "e", "q", "u", "i", "r", "e",
      "(", "'", ".", "/", "i", "n", "d", "e", "x", "'", ")">>

SpecUpRepoPath ==
    <<"g", "i", "t", "h", "u", "b", ".", "c", "o", "m", "/">>
    \o <<"d", "e", "c", "e", "n", "t", "r", "a", "l", "i", "z", "e", "d", "-",
         "i", "d", "e", "n", "t", "i", "t", "y", "/">>
    \o SpecUpName

specUpCoreDeps == {"markdown-it", "gulp", "markdown-it-anchor", "markdown-it-attrs"}

specUpTypicalDeps ==
    << "markdown-it-chart", "markdown-it-container", "markdown-it-deflist",
       "markdown-it-icons", "markdown-it-ins", "markdown-it-mark",
       "markdown-it-modify-token", "markdown-it-multimd-table", "markdown-it-prism",
       "markdown-it-references", "markdown-it-sub", "markdown-it-sup",
       "markdown-it-task-lists", "markdown-it-textual-uml", "markdown-it-toc-and-anchor",
       "merge-stream", "pkg-dir", "prismjs", "yargs",
       "gulp-clean-css", "gulp-concat", "gulp-terser",
       "axios", "fs-extra" >>

\* depMatchCount >= 10
MinTypicalMatches == 10

\* the function with the range prefix resolved away (^1.0.8 returned as 1.0.8)
getSpecUpTVersion_Resolved(pkg) ==
    LET v == OrElse(AndThen(Get(pkg, "dependencies"), Get(Get(pkg, "dependencies"), "spec-up-t")),
               OrElse(AndThen(Get(pkg, "devDependencies"), Get(Get(pkg, "devDependencies"), "spec-up-t")),
                      Null))
    IN IF ~Truthy(pkg) THEN Null
       ELSE IF v.type = "string" /\ v.str # <<>> /\ Head(v.str) \in {"^", "~"} THEN Str(Tail(v.str))
       ELSE v

\* the function without its final "|| null"
getSpecUpTVersion_NoNull(pkg) ==
    IF ~Truthy(pkg) THEN Null
    ELSE OrElse(AndThen(Get(pkg, "dependencies"), Get(Get(pkg, "dependencies"), "spec-up-t")),
                AndThen(Get(pkg, "devDependencies"), Get(Get(pkg, "devDependencies"), "spec-up-t")))

getSpecUpTVersionFromPackageJson(pkg) ==
    IF ~Truthy(pkg) THEN Null
    ELSE OrElse(AndThen(Get(pkg, "dependencies"), Get(Get(pkg, "dependencies"), "spec-up-t")),
           OrElse(AndThen(Get(pkg, "devDependencies"), Get(Get(pkg, "devDependencies"), "spec-up-t")),
                  Null))

hasSpecUpScripts(pkg) ==
    LET scripts == Get(pkg, "scripts") IN
    \/ Truthy(Get(scripts, "edit")) /\ StrIncludes(Get(scripts, "edit"), ScriptSignature)
    \/ Truthy(Get(scripts, "render")) /\ StrIncludes(Get(scripts, "render"), ScriptSignature)

hasSpecUpCoreDeps(pkg) ==
    LET deps == Get(pkg, "dependencies") IN
    /\ Truthy(Get(deps, "markdown-it"))
    /\ Truthy(Get(deps, "gulp"))
    /\ Truthy(Get(deps, "markdown-it-anchor"))
    /\ Truthy(Get(deps, "markdown-it-attrs"))

depMatchCount(pkg) ==
    Cardinality({i \in 1..Len(specUpTypicalDeps) :
                    Truthy(Get(Get(pkg, "dependencies"), specUpTypicalDeps[i]))})

hasSpecUpRepo(pkg) ==
    LET repository == Get(pkg, "repository") IN
    /\ Truthy(repository)
    /\ repository.type = "object"
    /\ Truthy(Get(repository, "url"))
    /\ StrIncludes(Get(repository, "url"), SpecUpRepoPath)

\* the function's test with depMatchCount > 10 for depMatchCount >= 10
hasDependencyPattern_Strict(pkg) ==
    /\ Truthy(Get(pkg, "dependencies"))
    /\ hasSpecUpCoreDeps(pkg)
    /\ depMatchCount(pkg) > MinTypicalMatches

\* Method 3: if (pkg.dependencies) { ... if (hasSpecUpCoreDeps && depMatchCount >= 10) ... }
hasDependencyPattern(pkg) ==
    /\ Truthy(Get(pkg, "dependencies"))
    /\ hasSpecUpCoreDeps(pkg)
    /\ depMatchCount(pkg) >= MinTypicalMatches

\* the function with the name test moved before the spec-up-t test
isUsingSpecUp_NameFirst(pkg) ==
    IF ~Truthy(pkg) THEN FALSE
    ELSE IF Get(pkg, "name") = Str(SpecUpName) THEN TRUE
    ELSE IF \/ Truthy(AndThen(Get(pkg, "dependencies"),
                              Get(Get(pkg, "dependencies"), "spec-up-t")))
            \/ Truthy(AndThen(Get(pkg, "devDependencies"),
                              Get(Get(pkg, "devDependencies"), "spec-up-t")))
         THEN FALSE
    ELSE IF Truthy(Get(pkg, "scripts")) /\ hasSpecUpScripts(pkg) THEN TRUE
    ELSE IF hasDependencyPattern(pkg) THEN TRUE
    ELSE hasSpecUpRepo(pkg)

isUsingSpecUp(pkg) ==
    IF ~Truthy(pkg) THEN FALSE
    ELSE IF \/ Truthy(AndThen(Get(pkg, "dependencies"),
                              Get(Get(pkg, "dependencies"), "spec-up-t")))
            \/ Truthy(AndThen(Get(pkg, "devDependencies"),
                              Get(Get(pkg, "devDependencies"), "spec-up-t")))
         THEN FALSE
    ELSE IF Get(pkg, "name") = Str(SpecUpName) THEN TRUE
    ELSE IF Truthy(Get(pkg, "scripts")) /\ hasSpecUpScripts(pkg) THEN TRUE
    ELSE IF hasDependencyPattern(pkg) THEN TRUE
    ELSE hasSpecUpRepo(pkg)

Digit == {"0", "1", "2", "3", "4", "5", "6", "7", "8", "9"}

\* \d+ from position i: the index of the last digit of the longest run of
\* digits starting at i (i - 1 when s[i] is no digit)
RECURSIVE DigitsEnd(_, _)
DigitsEnd(s, i) ==
    IF i <= Len(s) /\ s[i] \in Digit THEN DigitsEnd(s, i + 1) ELSE i - 1

\* /\/v(\d+\.\d+\.\d+)/ tried at position p: the index of the last character
\* matched, 0 when the pattern does not match there
TagEndAt(s, p) ==
    IF ~(p + 1 <= Len(s) /\ s[p] = "/" /\ s[p + 1] = "v") THEN 0
    ELSE LET e1 == DigitsEnd(s, p + 2) IN
         IF ~(e1 >= p + 2 /\ e1 + 1 <= Len(s) /\ s[e1 + 1] = ".") THEN 0
         ELSE LET e2 == DigitsEnd(s, e1 + 2) IN
              IF ~(e2 >= e1 + 2 /\ e2 + 1 <= Len(s) /\ s[e2 + 1] = ".") THEN 0
              ELSE LET e3 == DigitsEnd(s, e2 + 2) IN
                   IF e3 >= e2 + 2 THEN e3 ELSE 0

\* repoUrl.match(/\/v(\d+\.\d+\.\d+)/): group 1 of the leftmost match, Null without one
RECURSIVE versionMatchFrom(_, _)
versionMatchFrom(s, p) ==
    IF p > Len(s) THEN Null
    ELSE IF TagEndAt(s, p) # 0 THEN Str(SubSeq(s, p + 2, TagEndAt(s, p)))
    ELSE versionMatchFrom(s, p + 1)

versionMatch(s) == versionMatchFrom(s, 1)

\* the version tag of pkg.repository.url, Null without one
repositoryTag(pkg) ==
    LET repository == Get(pkg, "repository") IN
    IF /\ Truthy(repository)
       /\ repository.type = "object"
       /\ Truthy(Get(repository, "url"))
       /\ Get(repository, "url").type = "string"
    THEN versionMatch(Get(repository, "url").str)
    ELSE Null

\* the function with the url tag tried before the manifest's own version
getSpecUpVersion_TagFirst(pkg) ==
    IF ~Truthy(pkg) THEN Null
    ELSE IF Truthy(repositoryTag(pkg)) THEN repositoryTag(pkg)
    ELSE IF Get(pkg, "name") = Str(SpecUpName) /\ Truthy(Get(pkg, "version"))
         THEN Get(pkg, "version")
    ELSE IF /\ Truthy(Get(pkg, "dependencies"))
            /\ Truthy(Get(Get(pkg, "dependencies"), "markdown-it"))
            /\ Truthy(Get(Get(pkg, "dependencies"), "gulp"))
            /\ Truthy(Get(pkg, "version"))
         THEN Str(<<"~">> \o Get(pkg, "version").str)
    ELSE Null

\* the function with the last resort tried before the url tag
getSpecUpVersion_ApproximateFirst(pkg) ==
    IF ~Truthy(pkg) THEN Null
    ELSE IF Get(pkg, "name") = Str(SpecUpName) /\ Truthy(Get(pkg, "version"))
         THEN Get(pkg, "version")
    ELSE IF /\ Truthy(Get(pkg, "dependencies"))
            /\ Truthy(Get(Get(pkg, "dependencies"), "markdown-it"))
            /\ Truthy(Get(Get(pkg, "dependencies"), "gulp"))
            /\ Truthy(Get(pkg, "version"))
         THEN Str(<<"~">> \o Get(pkg, "version").str)
    ELSE repositoryTag(pkg)

getSpecUpVersionFromPackageJson(pkg) ==
    IF ~Truthy(pkg) THEN Null
    ELSE IF Get(pkg, "name") = Str(SpecUpName) /\ Truthy(Get(pkg, "version"))
         THEN Get(pkg, "version")
    ELSE LET tag == repositoryTag(pkg)
         IN IF Truthy(tag) THEN tag
            ELSE IF /\ Truthy(Get(pkg, "dependencies"))
                    /\ Truthy(Get(Get(pkg, "dependencies"), "markdown-it"))
                    /\ Truthy(Get(Get(pkg, "dependencies"), "gulp"))
                    /\ Truthy(Get(pkg, "version"))
                 THEN Str(<<"~">> \o Get(pkg, "version").str)
            ELSE Null

----------------------------------------------------------------------------
(* specupVersion.js: the manifest locator *)

GithubPrefix == <<"h", "t", "t", "p", "s", ":", "/", "/", "g", "i", "t", "h", "u", "b", ".", "c", "o", "m", "/">>

RawPrefix ==
    <<"h", "t", "t", "p", "s", ":", "/", "/", "r", "a", "w", ".", "g", "i", "t", "h", "u", "b",
      "u", "s", "e", "r", "c", "o", "n", "t", "e", "n", "t", ".", "c", "o", "m", "/">>

MainPackageJson == <<"/", "m", "a", "i", "n", "/", "p", "a", "c", "k", "a", "g", "e", ".", "j", "s", "o", "n">>
MasterPackageJson == <<"/", "m", "a", "s", "t", "e", "r", "/", "p", "a", "c", "k", "a", "g", "e", ".", "j", "s", "o", "n">>

\* the characters the . of a regular expression does not match
LineTerminator == {"\n", "\r"}

\* [^...]+ from position i: the index of the last character of the longest
\* run of characters outside excluded starting at i (i - 1 for an empty run)
RECURSIVE RunEnd(_, _, _)
RunEnd(s, i, excluded) ==
    IF i <= Len(s) /\ s[i] \notin excluded THEN RunEnd(s, i + 1, excluded) ELSE i - 1

\* repoUrl.match(/^https:\/\/github.com\/([^\/]+)\/([^\/\.]+)(?:\.git)?/):
\* groups 1 and 2, Null when the pattern does not match.  The . of github.com
\* is not escaped: it matches any one character but a line terminator.
repoUrlMatch(repoUrl) ==
    LET orgEnd == RunEnd(repoUrl, 20, {"/"})
        repoEnd == RunEnd(repoUrl, orgEnd + 2, {"/", "."})
    IN IF /\ Len(repoUrl) >= 19
          /\ SubSeq(repoUrl, 1, 14) = <<"h", "t", "t", "p", "s", ":", "/", "/", "g", "i", "t", "h", "u", "b">>
          /\ repoUrl[15] \notin LineTerminator
          /\ SubSeq(repoUrl, 16, 19) = <<"c", "o", "m", "/">>
          /\ orgEnd >= 20
          /\ orgEnd + 1 <= Len(repoUrl) /\ repoUrl[orgEnd + 1] = "/"
          /\ repoEnd >= orgEnd + 2
       THEN [type |-> "match", org |-> SubSeq(repoUrl, 20, orgEnd),
             repo |-> SubSeq(repoUrl, orgEnd + 2, repoEnd)]
       ELSE Null

getRawPackageJsonUrls(repoUrl) ==
    LET m == repoUrlMatch(repoUrl.str) IN
    IF m = Null THEN Null
    ELSE Arr(<<Str(RawPrefix \o m.org \o <<"/">> \o m.repo \o MainPackageJson),
               Str(RawPrefix \o m.org \o <<"/">> \o m.repo \o MasterPackageJson)>>)

----------------------------------------------------------------------------
(* repoUrl.js and specConfig.js: the repository resolvers *)

Github == <<"g", "i", "t", "h", "u", "b">>

\* `${v}` : the text a template literal gives a value
TemplateText(v) ==
    CASE v.type = "string" -> v.str
      [] v.type = "undefined" -> <<"u", "n", "d", "e", "f", "i", "n", "e", "d">>
      [] v.type = "null" -> <<"n", "u", "l", "l">>
      [] OTHER -> <<"[", "o", "b", "j", "e", "c", "t", " ", "O", "b", "j", "e", "c", "t", "]">>

UpperCase == <<"A", "B", "C", "D", "E", "F", "G", "H", "I", "J", "K", "L", "M",
               "N", "O", "P", "Q", "R", "S", "T", "U", "V", "W", "X", "Y", "Z">>
LowerCase == <<"a", "b", "c", "d", "e", "f", "g", "h", "i", "j", "k", "l", "m",
               "n", "o", "p", "q", "r", "s", "t", "u", "v", "w", "x", "y", "z">>

\* s.toLowerCase()
toLowerCase(s) ==
    [i \in 1..Len(s) |->
        IF \E j \in 1..Len(UpperCase) : UpperCase[j] = s[i]
        THEN LowerCase[CHOOSE j \in 1..Len(UpperCase) : UpperCase[j] = s[i]]
        ELSE s[i]]

\* new Error(message)
Error(message) == [type |-> "error", message |-> message]

\* what a call gives back: a value, or an exception
Returned(v) == [type |-> "returned", value |-> v]
Thrown(e) == [type |-> "thrown", error |-> e]

\* typeof repoUrl === 'object' && repoUrl.host === 'github'
\* (typeof null is 'object' too: the caller reads null.host and throws)
isGithubRepoObject(repoUrl) ==
    repoUrl.type = "object" /\ Get(repoUrl, "host") = Str(Github)

\* getRepoUrlString throwing on what is no repository on GitHub
getRepoUrlString_Strict(repoUrl) ==
    IF repoUrl.type = "null" \/ (repoUrl.type = "string" /\ ~Includes(repoUrl.str, Github))
    THEN Thrown(Error(<<"T", "y", "p", "e", "E", "r", "r", "o", "r">>))
    ELSE IF isGithubRepoObject(repoUrl)
         THEN Returned(Str(GithubPrefix \o TemplateText(Get(repoUrl, "account")) \o <<"/">>
                           \o TemplateText(Get(repoUrl, "repo"))))
    ELSE Returned(repoUrl)

getRepoUrlString(repoUrl) ==
    IF repoUrl.type = "null" THEN Thrown(Error(<<"T", "y", "p", "e", "E", "r", "r", "o", "r">>))
    ELSE IF isGithubRepoObject(repoUrl)
         THEN Returned(Str(GithubPrefix \o TemplateText(Get(repoUrl, "account")) \o <<"/">>
                           \o TemplateText(Get(repoUrl, "repo"))))
    ELSE Returned(repoUrl)

\* 'window.specConfig'
SpecConfigMarker ==
    <<"w", "i", "n", "d", "o", "w", ".", "s", "p", "e", "c", "C", "o", "n", "f", "i", "g">>

\* A page is the sequence of its script elements.  A script element has its
\* textContent and what running it in the sandbox leaves in
\* sandbox.window.specConfig (Undefined when it assigns nothing), or the
\* exception it throws.
ScriptElement(text, outcome) == [textContent |-> text, outcome |-> outcome]

\* the index of the first script whose text includes the marker, 0 for null
RECURSIVE findSpecConfigScriptFrom(_, _)
findSpecConfigScriptFrom(scripts, i) ==
    IF i > Len(scripts) THEN 0
    ELSE IF Includes(scripts[i].textContent, SpecConfigMarker) THEN i
    ELSE findSpecConfigScriptFrom(scripts, i + 1)

findSpecConfigScript(scripts) == findSpecConfigScriptFrom(scripts, 1)

extractConfigFromScript(script) ==
    IF script.outcome.type = "thrown" THEN Null ELSE script.outcome

\* config.source to a url, lines 55 to 78
sourceToUrl(source) ==
    IF source.type = "string" THEN source
    ELSE IF source.type = "object" /\ Truthy(Get(source, "url")) THEN Get(source, "url")
    ELSE IF /\ source.type = "object"
            /\ Truthy(Get(source, "host")) /\ Truthy(Get(source, "account"))
            /\ Truthy(Get(source, "repo"))
            /\ toLowerCase(Get(source, "host").str) = Github
         THEN Str(GithubPrefix \o TemplateText(Get(source, "account")) \o <<"/">>
                  \o TemplateText(Get(source, "repo")))
    ELSE Null

\* html is the page's sequence of script elements
extractRepoUrlFromSpecConfig(html) ==
    LET found == findSpecConfigScript(html) IN
    IF found = 0 THEN Null
    ELSE LET config == extractConfigFromScript(html[found]) IN
         IF ~Truthy(config) \/ ~Truthy(Get(config, "source")) THEN Null
         ELSE sourceToUrl(Get(config, "source"))

----------------------------------------------------------------------------
(* analyzer.js: the analysis result and its classification step *)

\* const result = { repo: null, pdfExists: false, ... }
NewResult ==
    [repo |-> Null, pdfExists |-> FALSE, pdfError |-> Null, specUpVersion |-> Null,
     isUsingSpecUp |-> FALSE, specUpOriginalVersion |-> Null, versionInfo |-> Null,
     lastModified |-> Null, headers |-> Null, error |-> Null]

\* the classification step writing the version it finds to both fields
classifyManifest_BothFields(result, pkg) ==
    IF ~Truthy(pkg) THEN result
    ELSE IF isUsingSpecUp(pkg)
         THEN [result EXCEPT !.isUsingSpecUp = TRUE,
                             !.specUpOriginalVersion = getSpecUpVersionFromPackageJson(pkg),
                             !.specUpVersion = getSpecUpVersionFromPackageJson(pkg)]
         ELSE [result EXCEPT !.isUsingSpecUp = FALSE,
                             !.specUpVersion = getSpecUpTVersionFromPackageJson(pkg),
                             !.specUpOriginalVersion = getSpecUpTVersionFromPackageJson(pkg)]

\* if (pkg) { result.isUsingSpecUp = ...; if (isUsingSpecUp) {...} else {...} }
classifyManifest(result, pkg) ==
    IF ~Truthy(pkg) THEN result
    ELSE IF isUsingSpecUp(pkg)
         THEN [result EXCEPT !.isUsingSpecUp = TRUE,
                             !.specUpOriginalVersion = getSpecUpVersionFromPackageJson(pkg)]
         ELSE [result EXCEPT !.isUsingSpecUp = FALSE,
                             !.specUpVersion = getSpecUpTVersionFromPackageJson(pkg)]

----------------------------------------------------------------------------
(* the network: requests, and what a request is answered with *)

Request(method, url) == [method |-> method, url |-> url]

\* The body of a response: a document between lead and trail characters of
\* white space.  The document is nothing, a JSON text (with the value it
\* parses to), an HTML page (with its script elements) or other text.
NoDocument == [type |-> "nothing"]
JsonText(value) == [type |-> "json", value |-> value]
HtmlPage(scripts) == [type |-> "html", scripts |-> scripts]
OtherDocument == [type |-> "text"]
Body(lead, doc, trail) == [lead |-> lead, doc |-> doc, trail |-> trail]
NoBody == Body(0, NoDocument, 0)

\* the three ways a request ends: the response callback, the 'error' event,
\* and the timeout of the requests that set one
Response(statusCode, headers, body) ==
    [kind |-> "response", statusCode |-> statusCode, headers |-> headers, body |-> body]
Refused ==
    [kind |-> "error",
     error |-> Error(<<"c", "o", "n", "n", "e", "c", "t", " ", "E", "C", "O", "N", "N", "R", "E", "F", "U", "S", "E", "D">>)]
TimedOut == [kind |-> "timeout"]

\* {} and an object with the one property k
EmptyObject == Obj([k \in {} |-> Undefined])
Property(k, v) == Obj(k :> v)

DecimalDigits == <<"0", "1", "2", "3", "4", "5", "6", "7", "8", "9">>

\* `${n}` for a number n
RECURSIVE Decimal(_)
Decimal(n) ==
    IF n < 10 THEN <<DecimalDigits[n + 1]>>
    ELSE Decimal(n \div 10) \o <<DecimalDigits[(n % 10) + 1]>>

\* s.endsWith('/') ? s : `${s}/`
withTrailingSlash(s) == IF Len(s) > 0 /\ s[Len(s)] = "/" THEN s ELSE s \o <<"/">>

\* s.replace(/\/$/, '')
withoutTrailingSlash(s) ==
    IF Len(s) > 0 /\ s[Len(s)] = "/" THEN SubSeq(s, 1, Len(s) - 1) ELSE s

----------------------------------------------------------------------------
(* specupVersion.js and fetcher.js: fetching a manifest *)

HttpErrorText == <<"H", "T", "T", "P", " ", "E", "r", "r", "o", "r", ":", " ">>
InvalidContentTypeText ==
    <<"I", "n", "v", "a", "l", "i", "d", " ", "c", "o", "n", "t", "e", "n", "t", " ", "t", "y", "p", "e", ":", " ">>
EmptyResponseText ==
    <<"E", "m", "p", "t", "y", " ", "r", "e", "s", "p", "o", "n", "s", "e", " ", "r", "e", "c", "e", "i", "v", "e", "d">>
JsonParsingErrorText ==
    <<"J", "S", "O", "N", " ", "p", "a", "r", "s", "i", "n", "g", " ", "e", "r", "r", "o", "r", ":", " ",
      "U", "n", "e", "x", "p", "e", "c", "t", "e", "d", " ", "t", "o", "k", "e", "n">>
ApplicationJson == <<"a", "p", "p", "l", "i", "c", "a", "t", "i", "o", "n", "/", "j", "s", "o", "n">>
TextPlain == <<"t", "e", "x", "t", "/", "p", "l", "a", "i", "n">>

\* callback(err) and callback(null, data)
Failure(err) == [type |-> "callback", err |-> err, data |-> Undefined]
Success(data) == [type |-> "callback", err |-> Null, data |-> data]

\* data.trim()
trim(data) == Body(0, data.doc, 0)

\* JSON.parse(text)
JSONparse(text) ==
    IF text.doc.type = "json" THEN Returned(text.doc.value)
    ELSE Thrown(Error(<<"U", "n", "e", "x", "p", "e", "c", "t", "e", "d", " ", "t", "o", "k", "e", "n">>))

\* what fetchJson calls back with, from the answer to its request
fetchJson(answer) ==
    IF answer.kind = "error" THEN Failure(answer.error)
    ELSE IF answer.statusCode >= 400
    THEN Failure(Error(HttpErrorText \o Decimal(answer.statusCode)))
    ELSE LET contentType == Get(answer.headers, "content-type") IN
         IF /\ Truthy(contentType)
            /\ ~StrIncludes(contentType, ApplicationJson)
            /\ ~StrIncludes(contentType, TextPlain)
         THEN Failure(Error(InvalidContentTypeText \o TemplateText(contentType)))
         ELSE LET trimmedData == trim(answer.body) IN
              IF trimmedData.doc = NoDocument THEN Failure(Error(EmptyResponseText))
              ELSE IF JSONparse(trimmedData).type = "thrown"
              THEN Failure(Error(JsonParsingErrorText))
              ELSE Success(JSONparse(trimmedData).value)

\* the promise of fetchPackageJson: rejected with err, or resolved with data
fetchPackageJson(answer) ==
    LET called == fetchJson(answer) IN
    IF Truthy(called.err) THEN Thrown(called.err) ELSE Returned(called.data)

----------------------------------------------------------------------------
(* fetcher.js and analyzer.js: last modification, index.html, index.pdf *)

Date(text) == [type |-> "date", text |-> text]

\* what the promise of getLastModified resolves with (it never rejects)
getLastModified(answer) ==
    IF answer.kind = "error" THEN [date |-> Null, headers |-> EmptyObject]
    ELSE [date |-> IF Truthy(Get(answer.headers, "last-modified"))
                   THEN Date(Get(answer.headers, "last-modified").str)
                   ELSE Null,
          headers |-> answer.headers]

GithubCom == <<"g", "i", "t", "h", "u", "b", ".", "c", "o", "m">>
IndexHtml == <<"/", "i", "n", "d", "e", "x", ".", "h", "t", "m", "l">>
IndexPdf == <<"/", "i", "n", "d", "e", "x", ".", "p", "d", "f">>

\* the promise of fetchIndexHtml: the body of any response, whatever its status
fetchIndexHtml(answer) ==
    IF answer.kind = "error" THEN Thrown(answer.error) ELSE Returned(answer.body)

\* new JSDOM(html) ... querySelectorAll('script')
querySelectorAllScript(html) == IF html.doc.type = "html" THEN html.doc.scripts ELSE <<>>

\* fetchAndAnalyzeHtml returning what the extractor found, null included
analyzeHtml_NoFallback(url, fetched) ==
    IF fetched.type = "thrown" THEN url
    ELSE extractRepoUrlFromSpecConfig(querySelectorAllScript(fetched.value))

\* fetchAndAnalyzeHtml from its try on, once fetchIndexHtml has settled
analyzeHtml(url, fetched) ==
    IF fetched.type = "thrown" THEN url
    ELSE LET found == extractRepoUrlFromSpecConfig(querySelectorAllScript(fetched.value)) IN
         IF ~Truthy(found) THEN url
         ELSE IF found.type = "string" THEN found
         ELSE IF found.type = "object"
         THEN LET foundUrl == OrElse(Get(found, "url"),
                                     OrElse(Get(found, "html_url"), Get(found, "git_url")))
              IN IF Truthy(foundUrl) /\ foundUrl.type = "string" THEN foundUrl ELSE url
         ELSE url

UnexpectedStatusText ==
    <<"U", "n", "e", "x", "p", "e", "c", "t", "e", "d", " ", "s", "t", "a", "t", "u", "s", " ", "c", "o", "d", "e", ":", " ">>
PdfTimeoutText ==
    <<"T", "i", "m", "e", "o", "u", "t", " ", "w", "h", "e", "n", " ", "c", "h", "e", "c", "k", "i", "n", "g", " ",
      "f", "o", "r", " ", "P", "D", "F">>

\* baseUrl.replace(/\/$/, '') + '/index.pdf'
pdfUrl(baseUrl) == withoutTrailingSlash(baseUrl) \o IndexPdf

\* checkIndexPdfExists with a failure reported as a missing file
checkIndexPdfExists_FailureAsMissing(answer) ==
    IF answer.kind = "error" \/ answer.kind = "timeout" THEN [type |-> "checked", exists |-> FALSE]
    ELSE IF answer.statusCode = 200 THEN [type |-> "checked", exists |-> TRUE]
    ELSE IF /\ answer.statusCode >= 300 /\ answer.statusCode < 400
            /\ Truthy(Get(answer.headers, "location"))
    THEN [type |-> "redirected", redirectUrl |-> Get(answer.headers, "location").str]
    ELSE [type |-> "checked", exists |-> FALSE]

\* What checkIndexPdfExists does with the answer to its request: it calls
\* back with exists or with an error, or calls itself on the redirect url.
\* (The status message of the response is not modelled: the error text is
\* the one of a response without a status message.)
checkIndexPdfExists(answer) ==
    IF answer.kind = "error" THEN [type |-> "failed", error |-> answer.error]
    ELSE IF answer.kind = "timeout" THEN [type |-> "failed", error |-> Error(PdfTimeoutText)]
    ELSE IF answer.statusCode = 200 THEN [type |-> "checked", exists |-> TRUE]
    ELSE IF answer.statusCode = 404 THEN [type |-> "checked", exists |-> FALSE]
    ELSE IF /\ answer.statusCode >= 300 /\ answer.statusCode < 400
            /\ Truthy(Get(answer.headers, "location"))
    THEN [type |-> "redirected", redirectUrl |-> Get(answer.headers, "location").str]
    ELSE [type |-> "failed",
          error |-> Error(UnexpectedStatusText \o Decimal(answer.statusCode)
                          \o <<" ", "(", "U", "n", "k", "n", "o", "w", "n", ")">>)]

----------------------------------------------------------------------------
(* versionCheck.js: the probe of the versions directory *)

maxMissingVersions == 3

\* versionPatterns with the literal tags before v1 to v20
versionPatterns_TagsFirst ==
    <<<<"1", ".", "0">>, <<"v", "1", ".", "0">>, <<"v", "1", ".", "0", ".", "0">>,
      <<"2", ".", "0">>, <<"v", "2", ".", "0">>, <<"v", "2", ".", "0", ".", "0">>,
      <<"l", "a", "t", "e", "s", "t">>, <<"s", "t", "a", "b", "l", "e">>,
      <<"c", "u", "r", "r", "e", "n", "t">>, <<"n", "e", "x", "t">>, <<"b", "e", "t", "a">>>>
    \o [i \in 1..20 |-> <<"v">> \o Decimal(i)]

versionPatterns ==
    [i \in 1..20 |-> <<"v">> \o Decimal(i)]
    \o <<<<"1", ".", "0">>, <<"v", "1", ".", "0">>, <<"v", "1", ".", "0", ".", "0">>,
         <<"2", ".", "0">>, <<"v", "2", ".", "0">>, <<"v", "2", ".", "0", ".", "0">>,
         <<"l", "a", "t", "e", "s", "t">>, <<"s", "t", "a", "b", "l", "e">>,
         <<"c", "u", "r", "r", "e", "n", "t">>, <<"n", "e", "x", "t">>, <<"b", "e", "t", "a">>>>

\* new URL('versions/', normalizedUrl) for a base url without query or fragment
versionsUrl(baseUrl) ==
    withTrailingSlash(baseUrl) \o <<"v", "e", "r", "s", "i", "o", "n", "s", "/">>

\* new URL(`${vPattern}/`, versionsUrl)
versionUrl(baseUrl, i) == versionsUrl(baseUrl) \o versionPatterns[i] \o <<"/">>

\* checkDirectoryExists taking a redirect for a missing directory
checkDirectoryExists_OnlyOk(answer) ==
    answer.kind = "response" /\ answer.statusCode = 200

\* what the promise of checkDirectoryExists resolves with (it never rejects)
checkDirectoryExists(answer) ==
    answer.kind = "response" /\ answer.statusCode >= 200 /\ answer.statusCode < 400

\* missingCount after a probe without a reset on a hit
missingCountAfter_NoReset(exists, missingCount) == IF exists THEN missingCount ELSE missingCount + 1

\* if (exists) { missingCount = 0 } else { missingCount++ }
missingCountAfter(exists, missingCount) == IF exists THEN 0 ELSE missingCount + 1

\* the objects checkVersions returns
VersionInfo(exists, versions, baseUrl) ==
    [type |-> "versionInfo", exists |-> exists, count |-> Len(versions),
     versions |-> versions, baseUrl |-> baseUrl]

----------------------------------------------------------------------------
(* the manifests the functions are called on *)

OtherName == <<"m", "y", "-", "s", "p", "e", "c">>
Version0106 == <<"0", ".", "1", "0", ".", "6">>
CaretRange == <<"^", "1", ".", "0", ".", "8">>
TildeRange == <<"~", "2", ".", "0", ".", "0">>
StarRange == <<"*">>
Https == <<"h", "t", "t", "p", "s", ":", "/", "/">>

\* an object with the properties of rec that are not undefined
ObjOf(rec) == Obj([k \in {k \in DOMAIN rec : rec[k] # Undefined} |-> rec[k]])

Names == {Undefined, Str(SpecUpName), Str(OtherName)}
Versions == {Undefined, Str(<<>>), Str(Version0106)}
SuccessorRanges == {Undefined, Str(<<>>), Str(CaretRange)}

CoreChoices ==
    {specUpCoreDeps, specUpCoreDeps \ {"markdown-it-attrs"}, specUpCoreDeps \ {"gulp"}, {}}

\* which names of specUpTypicalDeps a manifest has: none, 9, 10 (the first and
\* the last ones of the list) and all of them
TypicalChoices == {{}, 1..9, 1..10, 15..24, 1..Len(specUpTypicalDeps)}

\* a dependencies object: the successor's range sut (if any), the core names,
\* the typical names numbered typ; the names in blank map to the empty string
DepsOf(sut, core, typ, blank) ==
    LET names == core \cup {specUpTypicalDeps[i] : i \in typ}
                      \cup (IF sut = Undefined THEN {} ELSE {"spec-up-t"})
    IN Obj([k \in names |-> IF k = "spec-up-t" THEN sut
                            ELSE IF k \in blank THEN Str(<<>>)
                            ELSE Str(StarRange)])

DependenciesChoices ==
    {Undefined}
    \cup {DepsOf(sut, core, typ, {}) :
            sut \in SuccessorRanges, core \in CoreChoices, typ \in TypicalChoices}
    \cup {DepsOf(sut, specUpCoreDeps, 1..10, blank) :
            sut \in SuccessorRanges, blank \in {{"gulp"}, {"markdown-it-chart"}}}

DevDependenciesChoices ==
    {Undefined, DepsOf(Str(TildeRange), {}, {}, {}), DepsOf(Undefined, specUpCoreDeps, 1..10, {})}

ScriptsChoices ==
    {Undefined,
     Obj([edit |-> Str(ScriptSignature \o <<"(", ")", "\"">>)]),
     Obj([edit |-> Str(<<"g", "u", "l", "p">>),
          render |-> Str(<<"x", " ">> \o ScriptSignature \o <<".", "r", "(", ")", "\"">>)]),
     Obj([edit |-> Str(<<"g", "u", "l", "p">>), build |-> Str(ScriptSignature)])}

OtherSite == Https \o <<"x", ".", "i", "o", "/", "a">>

RepositoryChoices ==
    {Undefined,
     Str(Https \o SpecUpRepoPath),
     Obj([url |-> Str(Https \o SpecUpRepoPath \o <<".", "g", "i", "t">>)]),
     Obj([type |-> Str(<<"g", "i", "t">>),
          url |-> Str(Https \o SpecUpRepoPath \o <<"/", "t", "r", "e", "e", "/", "v", "0", ".", "9", ".", "1">>)]),
     Obj([url |-> Str(OtherSite \o <<"/", "v", "1", ".", "2", "/", "v", "3", ".", "4", "5", ".", "6", ".", "7",
                                     "/", "v", "8", ".", "9", ".", "0">>)]),
     Obj([url |-> Str(OtherSite \o <<"/", "v", "1", "2", ".", "3">>)])}

Manifests ==
    {ObjOf([name |-> n, version |-> v, dependencies |-> d, devDependencies |-> dd,
            scripts |-> s, repository |-> r]) :
        n \in Names, v \in Versions, d \in DependenciesChoices,
        dd \in DevDependenciesChoices, s \in ScriptsChoices, r \in RepositoryChoices}

----------------------------------------------------------------------------
(* the source references, pages and repository urls the functions are called on *)

Foo == <<"f", "o", "o">>
Bar == <<"b", "a", "r">>

Hosts == {Undefined, Str(<<>>), Str(Github), Str(<<"G", "i", "t", "H", "u", "b">>),
          Str(<<"g", "i", "t", "l", "a", "b">>)}
Accounts == {Undefined, Str(<<>>), Str(Foo)}
Repos == {Undefined, Str(<<>>), Str(Bar)}
SourceUrls == {Undefined, Str(GithubPrefix \o <<"o", "/", "r">>)}

StructuredSources ==
    {ObjOf([host |-> h, account |-> a, repo |-> r, url |-> u]) :
        h \in Hosts, a \in Accounts, r \in Repos, u \in SourceUrls}

StringSources ==
    {Str(<<>>), Str(GithubPrefix \o Foo \o <<"/">> \o Bar),
     Str(Https \o <<"g", "i", "t", "l", "a", "b", ".", "c", "o", "m", "/">> \o Foo \o <<"/">> \o Bar)}

Sources == StructuredSources \cup StringSources

ConfigText == SpecConfigMarker \o <<" ", "=", " ", "{", "}">>
OtherText == <<"v", "a", "r", " ", "w", "i", "n", "d", "o", "w", ";">>

\* the page whose only script assigns a specConfig with this source
PageOf(source) == <<ScriptElement(ConfigText, ObjOf([source |-> source]))>>

\* pages without a specConfig script, with one that throws or assigns nothing
\* or null, and with scripts before and after the first specConfig script
Pages ==
    {PageOf(source) : source \in Sources}
    \cup {<<>>, <<ScriptElement(OtherText, Undefined)>>,
          <<ScriptElement(ConfigText, Thrown(Error(<<"S", "y", "n", "t", "a", "x", "E", "r", "r", "o", "r">>)))>>,
          <<ScriptElement(ConfigText, Undefined)>>,
          <<ScriptElement(ConfigText, Null)>>,
          <<ScriptElement(ConfigText, ObjOf([source |-> Undefined]))>>}
    \cup {<<ScriptElement(OtherText, ObjOf([source |-> Str(OtherSite)]))>> \o PageOf(source)
            \o PageOf(Str(OtherSite)) : source \in StringSources}

Http == <<"h", "t", "t", "p", ":", "/", "/">>

HostNames ==
    {<<"g", "i", "t", "h", "u", "b", ".", "c", "o", "m">>,
     <<"w", "w", "w", ".", "g", "i", "t", "h", "u", "b", ".", "c", "o", "m">>,
     <<"g", "i", "t", "l", "a", "b", ".", "c", "o", "m">>,
     <<"g", "i", "t", "h", "u", "b", "x", "c", "o", "m">>}

OrgNames == {Foo, <<"f", ".", "o">>}
RepoNames == {Bar, <<"b", "-", "r">>, <<"b", "a", "r", ".", "j", "s">>}
DotGit == <<".", "g", "i", "t">>
UrlTails == {<<>>, DotGit, <<"/">>, DotGit \o <<"/">>, <<"/", "t", "r", "e", "e", "/", "m", "a", "i", "n">>}

RepoUrls ==
    {Str(scheme \o host \o <<"/">> \o org \o <<"/">> \o repo \o tail) :
        scheme \in {Https, Http}, host \in HostNames, org \in OrgNames,
        repo \in RepoNames, tail \in UrlTails}
    \cup {Str(scheme \o host \o path) :
        scheme \in {Https, Http}, host \in HostNames,
        path \in {<<>>, <<"/">>, <<"/">> \o Foo, <<"/">> \o Foo \o <<"/">>, <<"/", "/">> \o Bar}}

----------------------------------------------------------------------------
(* fetcher.js: the url normalizer *)

WhiteSpace == {" ", "\t", "\n", "\r"}

\* the index of the first character of s from i on that is no white space
RECURSIVE trimStart(_, _)
trimStart(s, i) == IF i <= Len(s) /\ s[i] \in WhiteSpace THEN trimStart(s, i + 1) ELSE i

\* the index of the last character of s up to i that is no white space
RECURSIVE trimEnd(_, _)
trimEnd(s, i) == IF i >= 1 /\ s[i] \in WhiteSpace THEN trimEnd(s, i - 1) ELSE i

\* str.trim()
strTrim(s) == SubSeq(s, trimStart(s, 1), trimEnd(s, Len(s)))

\* /^https?:\/\//i.test(url)
hasScheme_CaseSensitive(url) ==
    \/ Len(url) >= 7 /\ SubSeq(url, 1, 7) = <<"h", "t", "t", "p", ":", "/", "/">>
    \/ Len(url) >= 8 /\ SubSeq(url, 1, 8) = <<"h", "t", "t", "p", "s", ":", "/", "/">>

hasScheme(url) ==
    \/ Len(url) >= 7 /\ toLowerCase(SubSeq(url, 1, 7)) = <<"h", "t", "t", "p", ":", "/", "/">>
    \/ Len(url) >= 8 /\ toLowerCase(SubSeq(url, 1, 8)) = <<"h", "t", "t", "p", "s", ":", "/", "/">>

normalizeUrl(str) ==
    LET url == strTrim(str.str)
        schemed == IF ~hasScheme(url) THEN <<"h", "t", "t", "p", "s", ":", "/", "/">> \o url ELSE url
    IN Str(withoutTrailingSlash(schemed))

----------------------------------------------------------------------------
(* analyzer.js and htmlReporter.js: the report *)

\* A card of the report: its title, its type, and the values its content
\* shows (the strings interpolated into the markup of the card).
createCardSection(title, content, cardType) ==
    [title |-> title, cardType |-> cardType, content |-> content]

formatRepositoryInfo(repoValue) ==
    IF repoValue.type = "string" THEN <<repoValue.str>>
    ELSE <<<<"U", "n", "k", "n", "o", "w", "n", " ", "r", "e", "p", "o", "s", "i", "t", "o", "r", "y">>>>

formatLastModified(lastModified) == <<lastModified.text>>

formatPdfStatus(exists, error) ==
    IF exists THEN <<>>
    ELSE IF Truthy(error) THEN <<<<"E", "r", "r", "o", "r", ":", " ">> \o error.message>>
    ELSE <<>>

formatSpecUpVersion(version) == IF Truthy(version) THEN <<TemplateText(version)>> ELSE <<>>

formatVersionInfo(versionInfo) ==
    IF ~versionInfo.exists THEN <<>>
    ELSE [i \in 1..Len(versionInfo.versions) |-> versionInfo.versions[i].str]

\* the cards generateHtmlReport puts between the boilerplate and the footer
reportCards(res) ==
    (IF Truthy(res.repo)
     THEN <<createCardSection("Repository", formatRepositoryInfo(res.repo), "primary")>>
     ELSE <<>>)
    \o (IF Truthy(res.lastModified)
        THEN <<createCardSection("Last Updated", formatLastModified(res.lastModified), "secondary")>>
        ELSE <<>>)
    \o <<createCardSection("PDF Status", formatPdfStatus(res.pdfExists, res.pdfError),
                           IF res.pdfExists THEN "success" ELSE "warning")>>
    \o (IF res.isUsingSpecUp
        THEN <<createCardSection("Build Tool Version (Original Spec-Up)",
                                 formatSpecUpVersion(res.specUpOriginalVersion), "success")>>
        ELSE <<createCardSection("Build Tool Version (Spec-Up-T)",
                                 formatSpecUpVersion(res.specUpVersion), "info")>>)
    \o (IF Truthy(res.versionInfo)
        THEN <<createCardSection("Specification Version History",
                                 formatVersionInfo(res.versionInfo), "info")>>
        ELSE <<>>)
    \o (IF Truthy(res.error)
        THEN <<createCardSection("Error", <<res.error.message>>, "danger")>>
        ELSE <<>>)

----------------------------------------------------------------------------
(* the strings the url normalizer is called on: white space, a scheme or *)
(* none, a host with or without a path, slashes, white space             *)

LeadingSpaces == {<<>>, <<" ">>, <<"\t", " ">>}
KnownSchemes ==
    {Http, Https, <<"H", "T", "T", "P", ":", "/", "/">>, <<"H", "t", "t", "p", "s", ":", "/", "/">>}
OtherSchemes == {<<>>, <<"h", "t", "t", "p", "x", ":", "/", "/">>, <<"f", "t", "p", ":", "/", "/">>}
UrlBodies ==
    {<<>>, <<"X", ".", "c", "o", "m">>,
     <<"e", "x", "a", "m", "p", "l", "e", ".", "c", "o", "m", "/", "s", "p", "e", "c">>}
TrailingSlashes == {<<>>, <<"/">>, <<"/", "/">>}
TrailingSpaces == {<<>>, <<" ">>, <<" ", "\n">>}

RawUrl(lead, scheme, body, slashes, trail) == Str(lead \o scheme \o body \o slashes \o trail)

RawUrls ==
    {RawUrl(lead, scheme, body, slashes, trail) :
        lead \in LeadingSpaces, scheme \in KnownSchemes \cup OtherSchemes, body \in UrlBodies,
        slashes \in TrailingSlashes, trail \in TrailingSpaces}

----------------------------------------------------------------------------
(* the urls an analysis run is started on, and the answers of the network *)

MaxPad == 1
MaxRedirects == 1

GithubRepo == GithubPrefix \o Foo \o <<"/">> \o Bar

\* a deployed site, and a repository url
InputUrls == {Str(OtherSite), Str(GithubRepo)}

NoSite == [type |-> "unknown"]

LastModifiedText ==
    <<"W", "e", "d", ",", " ", "2", "1", " ", "O", "c", "t", " ", "2", "0", "1", "5">>
TextHtml == <<"t", "e", "x", "t", "/", "h", "t", "m", "l">>
TextPlainUtf8 == TextPlain \o <<";", " ", "c", "h", "a", "r", "s", "e", "t", "=", "u", "t", "f", "-", "8">>
CdnUrl == <<"h", "t", "t", "p", "s", ":", "/", "/", "c", "d", "n", ".", "i", "o", "/", "a">>

ContentType(text) == Property("content-type", Str(text))

\* the answers to the HEAD request of getLastModified
LastModifiedAnswers ==
    {Response(200, Property("last-modified", Str(LastModifiedText)), NoBody),
     Response(200, ContentType(TextHtml), NoBody),
     Refused}

\* the pages of a deployed site: a string source and a structured source on
\* GitHub, a string source and a structured source elsewhere, and a
\* structured source without its repo field
SitePages ==
    {PageOf(Str(GithubRepo)),
     PageOf(ObjOf([host |-> Str(Github), account |-> Str(Foo), repo |-> Str(Bar)])),
     PageOf(Str(Https \o <<"g", "i", "t", "l", "a", "b", ".", "c", "o", "m", "/">> \o Foo \o <<"/">> \o Bar)),
     PageOf(ObjOf([host |-> Str(<<"g", "i", "t", "l", "a", "b">>), account |-> Str(Foo),
                   repo |-> Str(Bar)])),
     PageOf(ObjOf([host |-> Str(Github), account |-> Str(Foo)]))}

\* the answers to the request of index.html
IndexHtmlAnswers ==
    {Response(200, ContentType(TextHtml), Body(0, HtmlPage(page), 0)) : page \in SitePages}
    \cup {Response(404, ContentType(TextHtml), Body(0, HtmlPage(<<>>), 0)), Refused}

\* the answers to a request of index.pdf
IndexPdfAnswers ==
    {Response(200, EmptyObject, NoBody), Response(404, EmptyObject, NoBody),
     Response(500, EmptyObject, NoBody), Response(302, Property("location", Str(CdnUrl)), NoBody),
     Refused, TimedOut}

\* the manifests a repository serves: the successor declared, the original
\* tool by its name, the original tool by its scripts, and no sign of either
ServedManifests ==
    {ObjOf([name |-> Str(OtherName), version |-> Str(Version0106),
            dependencies |-> DepsOf(Str(CaretRange), {}, {}, {})]),
     ObjOf([name |-> Str(SpecUpName), version |-> Str(Version0106)]),
     ObjOf([name |-> Str(OtherName), version |-> Str(Version0106),
            scripts |-> Obj([edit |-> Str(ScriptSignature)])]),
     ObjOf([name |-> Str(OtherName), version |-> Str(Version0106)])}

\* The answers to the request of a manifest candidate: no connection, error
\* statuses, a content type that is neither JSON nor plain text, an empty or
\* blank body, text that is no JSON; then manifests and null served as
\* plain text, as JSON and without a content type, and the empty string
\* served as plain text.
ManifestAnswers ==
    {Refused,
     Response(404, ContentType(TextPlainUtf8), Body(0, OtherDocument, 0)),
     Response(500, EmptyObject, NoBody),
     Response(200, ContentType(TextHtml), Body(0, JsonText(Null), 0)),
     Response(200, EmptyObject, Body(0, OtherDocument, 0))}
    \cup {Response(200, ContentType(TextPlainUtf8), Body(lead, NoDocument, 0)) : lead \in 0..MaxPad}
    \cup {Response(200, ContentType(TextPlainUtf8), Body(MaxPad, JsonText(manifest), MaxPad)) :
            manifest \in ServedManifests}
    \cup {Response(200, ContentType(ApplicationJson), Body(0, JsonText(Null), 0)),
          Response(200, ContentType(TextPlainUtf8), Body(0, JsonText(Str(<<>>)), 0))}

\* How a site answers the probes of its versions directory: with root for
\* the directory itself; for the candidate numbered i with 200 if i is in
\* ok, 301 if in moved, no connection if in refused, no answer in time if in
\* slow, and 404 otherwise.
Site(root, ok, moved, refused, slow) ==
    [type |-> "site", root |-> root, ok |-> ok, moved |-> moved, refused |-> refused, slow |-> slow]

Sites ==
    {Site(Response(404, EmptyObject, NoBody), {}, {}, {}, {}),
     Site(Refused, {}, {}, {}, {}),
     Site(Response(200, EmptyObject, NoBody), {}, {}, {}, {}),
     Site(Response(301, EmptyObject, NoBody), {1, 2}, {}, {}, {}),
     Site(Response(200, EmptyObject, NoBody), {1, 4}, {3}, {5}, {6}),
     Site(Response(200, EmptyObject, NoBody), 1..Len(versionPatterns), {}, {}, {}),
     Site(Response(200, EmptyObject, NoBody), {4, 27}, {}, {}, {}),
     Site(Response(200, EmptyObject, NoBody), {3, 6, 9, 12, 15, 18, 21, 24, 27, 30}, {}, {}, {})}

ProbeAnswer(s, i) ==
    IF i = 0 THEN s.root
    ELSE IF i \in s.ok THEN Response(200, EmptyObject, NoBody)
    ELSE IF i \in s.moved THEN Response(301, EmptyObject, NoBody)
    ELSE IF i \in s.refused THEN Refused
    ELSE IF i \in s.slow THEN TimedOut
    ELSE Response(404, EmptyObject, NoBody)

----------------------------------------------------------------------------
(* analyzer.js: one run of analyzeSpec, a step for each stretch of code *)
(* between two awaits                                                    *)

\* the argument and the local variables of analyzeSpec and of the functions
\* it awaits, as they are when the run starts
NewRun(url) ==
    [normalizedUrl |-> url,     \* the argument of analyzeSpec
     result |-> NewResult,      \* const result
     repo |-> Undefined,        \* const repo
     redirects |-> 0,           \* the depth of the recursion of checkIndexPdfExists
     pkgUrls |-> Undefined,     \* const pkgUrls
     pkgUrl |-> 0,              \* the index in pkgUrls of the candidate of the loop
     pkg |-> Null,              \* let pkg
     lastError |-> Null,        \* let lastError
     site |-> NoSite,           \* how the site answers the probes of its versions
     vPattern |-> 0,            \* the index in versionPatterns of the candidate probed
     versionDirs |-> <<>>,      \* const versionDirs of listVersionDirectories
     missingCount |-> 0]        \* let missingCount of listVersionDirectories

Send(request) == requests' = Append(requests, request)
Receive(answer) == responses' = Append(responses, answer)

\* a number
Num(n) == [type |-> "number", num |-> n]

\* the command line: process.argv[2], the cards of the report once it is
\* written, whether the browser opened it, and the exit code of the process
NewCli(argv) == [argv |-> argv, report |-> Null, opened |-> FALSE, exitCode |-> Undefined]

\* no argument, an empty one, and the input urls with white space before
\* them and a slash after them
Argv == {Undefined, Str(<<>>)} \cup {Str(<<" ">> \o url.str \o <<"/">>) : url \in InputUrls}

Init ==
    /\ fn = "none" /\ arg = Undefined /\ ret = Pending
    /\ pc = "main"
    /\ cli \in {NewCli(argv) : argv \in Argv}
    /\ run = NewRun(Undefined)
    /\ requests = <<>>
    /\ responses = <<>>

\* cli.js main, lines 38 to 61, and generateHtmlReport up to its call of
\* analyzeSpec
Main ==
    /\ pc = "main"
    /\ IF ~Truthy(cli.argv)
       THEN /\ cli' = [cli EXCEPT !.exitCode = Num(1)]
            /\ pc' = "exited"
            /\ UNCHANGED run
       ELSE /\ run' = NewRun(normalizeUrl(cli.argv))
            /\ pc' = "analyzeSpec"
            /\ UNCHANGED cli
    /\ UNCHANGED <<call, requests, responses>>

\* lines 76 to 92, and getLastModified up to its request
AnalyzeSpec ==
    /\ pc = "analyzeSpec"
    /\ Send(Request("HEAD", withTrailingSlash(run.normalizedUrl.str)))
    /\ pc' = "getLastModified"
    /\ UNCHANGED <<call, cli, run, responses>>

\* lines 92 to 94
AwaitGetLastModified ==
    /\ pc = "getLastModified"
    /\ \E answer \in LastModifiedAnswers :
         LET lastModifiedInfo == getLastModified(answer) IN
         /\ Receive(answer)
         /\ run' = [run EXCEPT !.result.lastModified = lastModifiedInfo.date,
                               !.result.headers = lastModifiedInfo.headers]
    /\ pc' = "fetchAndAnalyzeHtml"
    /\ UNCHANGED <<call, cli, requests>>

\* FetchAndAnalyzeHtml without the test for a repository url
FetchAndAnalyzeHtml_AlwaysFetch ==
    /\ pc = "fetchAndAnalyzeHtml"
    /\ Send(Request("GET", run.normalizedUrl.str \o IndexHtml))
    /\ pc' = "fetchIndexHtml"
    /\ UNCHANGED <<call, cli, run, responses>>

\* line 100 and fetchAndAnalyzeHtml up to its await; lines 101 to 105 when
\* it returns without a request
FetchAndAnalyzeHtml ==
    /\ pc = "fetchAndAnalyzeHtml"
    /\ IF Includes(run.normalizedUrl.str, GithubCom)
       THEN /\ run' = [run EXCEPT !.repo = run.normalizedUrl,
                                  !.result.repo = run.normalizedUrl]
            /\ pc' = "checkIndexPdf"
            /\ UNCHANGED requests
       ELSE /\ Send(Request("GET", run.normalizedUrl.str \o IndexHtml))
            /\ pc' = "fetchIndexHtml"
            /\ UNCHANGED run
    /\ UNCHANGED <<call, cli, responses>>

\* AwaitFetchIndexHtml going on to the manifest, the PDF check left for later
AwaitFetchIndexHtml_ManifestFirst ==
    /\ pc = "fetchIndexHtml"
    /\ \E answer \in IndexHtmlAnswers :
         LET found == analyzeHtml(run.normalizedUrl, fetchIndexHtml(answer)) IN
         /\ Receive(answer)
         /\ run' = [run EXCEPT !.repo = found, !.result.repo = found]
    /\ pc' = "getRawPackageJsonUrls"
    /\ UNCHANGED <<call, cli, requests>>

\* the rest of fetchAndAnalyzeHtml, and lines 100 to 101
AwaitFetchIndexHtml ==
    /\ pc = "fetchIndexHtml"
    /\ \E answer \in IndexHtmlAnswers :
         LET found == analyzeHtml(run.normalizedUrl, fetchIndexHtml(answer)) IN
         /\ Receive(answer)
         /\ run' = [run EXCEPT !.repo = found, !.result.repo = found]
    /\ pc' = "checkIndexPdf"
    /\ UNCHANGED <<call, cli, requests>>

\* line 105, and checkIndexPdfExists up to its request
CheckIndexPdf ==
    /\ pc = "checkIndexPdf"
    /\ Send(Request("GET", pdfUrl(run.normalizedUrl.str)))
    /\ pc' = "checkIndexPdfExists"
    /\ UNCHANGED <<call, cli, run, responses>>

\* the callbacks of checkIndexPdfExists, and lines 105 to 109.  A redirect
\* is followed by a call of checkIndexPdfExists on the redirect url; the
\* depth of that recursion is bounded by MaxRedirects here, not in the code.
AwaitCheckIndexPdf ==
    /\ pc = "checkIndexPdfExists"
    /\ \E answer \in IndexPdfAnswers :
         LET done == checkIndexPdfExists(answer) IN
         /\ Receive(answer)
         /\ CASE done.type = "checked" ->
                   /\ run' = [run EXCEPT !.result.pdfExists = done.exists]
                   /\ pc' = "getRawPackageJsonUrls"
                   /\ UNCHANGED requests
              [] done.type = "failed" ->
                   /\ run' = [run EXCEPT !.result.pdfError = done.error]
                   /\ pc' = "getRawPackageJsonUrls"
                   /\ UNCHANGED requests
              [] done.type = "redirected" ->
                   /\ run.redirects < MaxRedirects
                   /\ run' = [run EXCEPT !.redirects = @ + 1]
                   /\ Send(Request("GET", pdfUrl(done.redirectUrl)))
                   /\ UNCHANGED pc
    /\ UNCHANGED <<call, cli>>

\* LocateManifest requesting every candidate at once
LocateManifest_AllAtOnce ==
    /\ pc = "getRawPackageJsonUrls"
    /\ LET repoUrlString == getRepoUrlString(run.repo).value
           found == getRawPackageJsonUrls(repoUrlString)
       IN IF ~Truthy(found) \/ Len(found.items) = 0
          THEN /\ run' = [run EXCEPT !.pkgUrls = found]
               /\ pc' = "checkVersions"
               /\ UNCHANGED requests
          ELSE /\ run' = [run EXCEPT !.pkgUrls = found, !.pkgUrl = 1]
               /\ requests' = requests \o [i \in 1..Len(found.items) |->
                                               Request("GET", found.items[i].str)]
               /\ pc' = "fetchPackageJson"
    /\ UNCHANGED <<call, cli, responses>>

\* Lines 112 to 128: the candidates, and the request of the first one.
\* getRepoUrlString is called outside the inner try blocks: when it throws,
\* the catch of lines 165 to 173 stores the error in the result and, called
\* with suppressExit, returns the result.
LocateManifest ==
    /\ pc = "getRawPackageJsonUrls"
    /\ LET resolved == getRepoUrlString(run.repo) IN
       IF resolved.type = "thrown"
       THEN /\ run' = [run EXCEPT !.result.error = resolved.error]
            /\ pc' = "done"
            /\ UNCHANGED requests
       ELSE LET found == getRawPackageJsonUrls(resolved.value) IN
            IF ~Truthy(found) \/ Len(found.items) = 0
            THEN /\ run' = [run EXCEPT !.pkgUrls = found]
                 /\ pc' = "checkVersions"
                 /\ UNCHANGED requests
            ELSE /\ run' = [run EXCEPT !.pkgUrls = found, !.pkgUrl = 1]
                 /\ Send(Request("GET", found.items[1].str))
                 /\ pc' = "fetchPackageJson"
    /\ UNCHANGED <<call, cli, responses>>

\* for (const pkgUrl of pkgUrls) { try { pkg = await ...; break; } catch ... }:
\* the loop goes on when the fetch threw and a candidate is left
loopGoesOn_NoBreak(fetched) == run.pkgUrl < Len(run.pkgUrls.items)

\* the loop going on until a candidate gives a manifest
loopGoesOn_UntilTruthy(fetched) ==
    /\ fetched.type = "thrown" \/ ~Truthy(fetched.value)
    /\ run.pkgUrl < Len(run.pkgUrls.items)

loopGoesOn(fetched) == fetched.type = "thrown" /\ run.pkgUrl < Len(run.pkgUrls.items)

\* lines 126 to 151: one turn of the loop, and after the last one the
\* classification
AwaitFetchPackageJson ==
    /\ pc = "fetchPackageJson"
    /\ \E answer \in ManifestAnswers :
         LET fetched == fetchPackageJson(answer)
             fetchedPkg == IF fetched.type = "returned" THEN fetched.value ELSE run.pkg
             caught == IF fetched.type = "thrown" THEN fetched.error ELSE run.lastError
         IN /\ Receive(answer)
            /\ IF loopGoesOn(fetched)
               THEN /\ run' = [run EXCEPT !.pkg = fetchedPkg, !.lastError = caught,
                                          !.pkgUrl = @ + 1]
                    /\ Send(Request("GET", run.pkgUrls.items[run.pkgUrl + 1].str))
                    /\ UNCHANGED pc
               ELSE /\ run' = [run EXCEPT !.pkg = fetchedPkg, !.lastError = caught,
                                          !.result = classifyManifest(@, fetchedPkg)]
                    /\ pc' = "checkVersions"
                    /\ UNCHANGED requests
    /\ UNCHANGED <<call, cli>>

\* line 158, and checkVersions up to the request of checkDirectoryExists
CheckVersions ==
    /\ pc = "checkVersions"
    /\ \E s \in Sites : run' = [run EXCEPT !.site = s]
    /\ Send(Request("HEAD", versionsUrl(run.normalizedUrl.str)))
    /\ pc' = "versionsExists"
    /\ UNCHANGED <<call, cli, responses>>

\* checkVersions lines 147 to 159, and analyzeSpec lines 159 to 164 when
\* there is no versions directory
AwaitVersionsExists ==
    /\ pc = "versionsExists"
    /\ LET answer == ProbeAnswer(run.site, 0) IN
       /\ Receive(answer)
       /\ IF checkDirectoryExists(answer)
          THEN /\ run' = [run EXCEPT !.vPattern = 1]
               /\ Send(Request("HEAD", versionUrl(run.normalizedUrl.str, 1)))
               /\ pc' = "listVersionDirectories"
          ELSE /\ run' = [run EXCEPT !.result.versionInfo =
                            VersionInfo(FALSE, <<>>, Str(withTrailingSlash(run.normalizedUrl.str)))]
               /\ pc' = "done"
               /\ UNCHANGED requests
    /\ UNCHANGED <<call, cli>>

\* one turn of the loop of listVersionDirectories; after the last one
\* checkVersions lines 161 to 166 and analyzeSpec lines 159 to 164
AwaitVersionExists ==
    /\ pc = "listVersionDirectories"
    /\ LET answer == ProbeAnswer(run.site, run.vPattern)
           exists == checkDirectoryExists(answer)
           dirs == IF exists THEN Append(run.versionDirs, Str(versionPatterns[run.vPattern]))
                   ELSE run.versionDirs
           missing == missingCountAfter(exists, run.missingCount)
       IN /\ Receive(answer)
          /\ IF (exists \/ missing < maxMissingVersions) /\ run.vPattern < Len(versionPatterns)
             THEN /\ run' = [run EXCEPT !.versionDirs = dirs, !.missingCount = missing,
                                        !.vPattern = @ + 1]
                  /\ Send(Request("HEAD", versionUrl(run.normalizedUrl.str, run.vPattern + 1)))
                  /\ UNCHANGED pc
             ELSE /\ run' = [run EXCEPT !.versionDirs = dirs, !.missingCount = missing,
                                        !.result.versionInfo =
                                            VersionInfo(TRUE, dirs, run.normalizedUrl)]
                  /\ pc' = "done"
                  /\ UNCHANGED requests
    /\ UNCHANGED <<call, cli>>

\* generateHtmlReport lines 183 to 252 and saveAndOpenReport up to its
\* await: the report is written, or writing it throws and main exits with 1
GenerateHtmlReport ==
    /\ pc = "done"
    /\ \E written \in BOOLEAN :
         IF written
         THEN /\ cli' = [cli EXCEPT !.report = Arr(reportCards(run.result))]
              /\ pc' = "open"
         ELSE /\ cli' = [cli EXCEPT !.exitCode = Num(1)]
              /\ pc' = "exited"
    /\ UNCHANGED <<call, run, requests, responses>>

\* AwaitOpen with a browser that does not open taken as a failure of main
AwaitOpen_OpenFailureExits ==
    /\ pc = "open"
    /\ \E opened \in BOOLEAN :
          cli' = [cli EXCEPT !.opened = opened, !.exitCode = IF opened THEN Num(0) ELSE Num(1)]
    /\ pc' = "exited"
    /\ UNCHANGED <<call, run, requests, responses>>

\* the rest of saveAndOpenReport (a browser that does not open is only
\* logged), and main lines 62 to 66
AwaitOpen ==
    /\ pc = "open"
    /\ \E opened \in BOOLEAN : cli' = [cli EXCEPT !.opened = opened, !.exitCode = Num(0)]
    /\ pc' = "exited"
    /\ UNCHANGED <<call, run, requests, responses>>

Next ==
    \/ Main
    \/ AnalyzeSpec
    \/ AwaitGetLastModified
    \/ FetchAndAnalyzeHtml
    \/ AwaitFetchIndexHtml
    \/ CheckIndexPdf
    \/ AwaitCheckIndexPdf
    \/ LocateManifest
    \/ AwaitFetchPackageJson
    \/ CheckVersions
    \/ AwaitVersionsExists
    \/ AwaitVersionExists
    \/ GenerateHtmlReport
    \/ AwaitOpen

Spec == Init /\ [][Next]_vars

----------------------------------------------------------------------------
(* direct calls of the exported functions *)

InitFn ==
    /\ \/ fn = "classify" /\ arg \in Manifests \cup {Null}
       \/ fn = "getRepoUrlString" /\ arg \in Sources \cup {Null}
       \/ fn = "extractRepoUrlFromSpecConfig" /\ arg \in Pages
       \/ fn = "getRawPackageJsonUrls" /\ arg \in RepoUrls
       \/ fn = "normalizeUrl" /\ arg \in RawUrls
    /\ ret = Pending
    /\ pc = "idle"
    /\ run = NewRun(Undefined)
    /\ cli = NewCli(Undefined)
    /\ requests = <<>>
    /\ responses = <<>>

\* a classifier that consumes the dependencies it has read
manifestAfter_Consumed(pkg) ==
    IF pkg.type = "object"
    THEN Obj([k \in DOMAIN pkg.obj \ {"dependencies"} |-> pkg.obj[k]])
    ELSE pkg

\* The manifest object after a call of the classifier's functions: they
\* only read pkg and its properties (no assignment to pkg, to a property
\* of it or to a module variable in specupVersion.js 80 to 220).
manifestAfter(pkg) == pkg

\* the values the classifier's three functions and the classification step
\* return on the manifest object pkg, and the object after the calls
classifierCalls(pkg, calls) ==
    [type |-> "classification",
     isUsingSpecUp |-> isUsingSpecUp(pkg),
     specUpTVersion |-> getSpecUpTVersionFromPackageJson(pkg),
     specUpVersion |-> getSpecUpVersionFromPackageJson(pkg),
     result |-> classifyManifest(NewResult, pkg),
     pkg |-> manifestAfter(pkg),
     calls |-> calls]

\* the classifier's three functions and the classification step, on manifest arg
Classify ==
    /\ fn = "classify"
    /\ ret = Pending
    /\ ret' = classifierCalls(arg, <<>>)
    /\ UNCHANGED <<fn, arg, pc, run, requests, responses, cli>>

\* the same calls once more on the same object; calls holds what the
\* earlier calls returned
ClassifyAgain ==
    /\ fn = "classify"
    /\ ret # Pending
    /\ Len(ret.calls) = 0
    /\ ret' = classifierCalls(ret.pkg, <<[isUsingSpecUp |-> ret.isUsingSpecUp,
                                          specUpTVersion |-> ret.specUpTVersion,
                                          specUpVersion |-> ret.specUpVersion,
                                          pkg |-> ret.pkg]>>)
    /\ UNCHANGED <<fn, arg, pc, run, requests, responses, cli>>

CallGetRepoUrlString ==
    /\ fn = "getRepoUrlString"
    /\ ret = Pending
    /\ ret' = getRepoUrlString(arg)
    /\ UNCHANGED <<fn, arg, pc, run, requests, responses, cli>>

CallExtractRepoUrlFromSpecConfig ==
    /\ fn = "extractRepoUrlFromSpecConfig"
    /\ ret = Pending
    /\ ret' = Returned(extractRepoUrlFromSpecConfig(arg))
    /\ UNCHANGED <<fn, arg, pc, run, requests, responses, cli>>

CallGetRawPackageJsonUrls ==
    /\ fn = "getRawPackageJsonUrls"
    /\ ret = Pending
    /\ ret' = Returned(getRawPackageJsonUrls(arg))
    /\ UNCHANGED <<fn, arg, pc, run, requests, responses, cli>>

CallNormalizeUrl ==
    /\ fn = "normalizeUrl"
    /\ ret = Pending
    /\ ret' = Returned(normalizeUrl(arg))
    /\ UNCHANGED <<fn, arg, pc, run, requests, responses, cli>>

NextFn ==
    \/ Classify
    \/ ClassifyAgain
    \/ CallGetRepoUrlString
    \/ CallExtractRepoUrlFromSpecConfig
    \/ CallGetRawPackageJsonUrls
    \/ CallNormalizeUrl

SpecFn == InitFn /\ [][NextFn]_vars

----------------------------------------------------------------------------
(* the vocabulary of the classifier's claims.  A manifest "declares" a      *)
(* dependency, and the dependency is "present", when it maps the name to a  *)
(* non-empty version-range string.                                          *)

NonEmptyString(v) == v.type = "string" /\ v.str # <<>>

Classified == fn = "classify" /\ ret # Pending

\* the version ranges the manifest declares for the successor tool
DeclaredSuccessorRanges(pkg) ==
    {v \in {Get(Get(pkg, f), "spec-up-t") : f \in {"dependencies", "devDependencies"}} :
        NonEmptyString(v)}

DeclaresSuccessor(pkg) == DeclaredSuccessorRanges(pkg) # {}

NameSignal(pkg) == Get(pkg, "name") = Str(SpecUpName)

ScriptSignal(pkg) ==
    \E k \in {"edit", "render"} :
        LET cmd == Get(Get(pkg, "scripts"), k) IN
        cmd.type = "string" /\ Includes(cmd.str, ScriptSignature)

CorePresent(pkg) ==
    \A c \in specUpCoreDeps : NonEmptyString(Get(Get(pkg, "dependencies"), c))

TypicalPresent(pkg) ==
    {d \in {specUpTypicalDeps[i] : i \in DOMAIN specUpTypicalDeps} :
        NonEmptyString(Get(Get(pkg, "dependencies"), d))}

DependencySignal(pkg) == CorePresent(pkg) /\ Cardinality(TypicalPresent(pkg)) >= 10

RepositorySignal(pkg) ==
    LET url == Get(Get(pkg, "repository"), "url") IN
    url.type = "string" /\ Includes(url.str, SpecUpRepoPath)

AnySignal(pkg) ==
    NameSignal(pkg) \/ ScriptSignal(pkg) \/ DependencySignal(pkg) \/ RepositorySignal(pkg)

\* C1: a manifest that declares spec-up-t with a non-empty range is classified
\* as not the original tool, and the successor version returned and stored in
\* result.specUpVersion is a declared range, character for character
C1_SuccessorVerbatim ==
    (Classified /\ DeclaresSuccessor(arg)) =>
        /\ ret.isUsingSpecUp = FALSE
        /\ ret.specUpTVersion \in DeclaredSuccessorRanges(arg)
        /\ ret.result.isUsingSpecUp = FALSE
        /\ ret.result.specUpVersion = ret.specUpTVersion
        /\ ret.result.specUpOriginalVersion = Null

\* a manifest named spec-up that declares ^1.0.8 has been classified
C1_Witness ==
    /\ Classified
    /\ NameSignal(arg)
    /\ Get(Get(arg, "dependencies"), "spec-up-t") = Str(CaretRange)
    /\ ret.result.specUpVersion = Str(CaretRange)

\* C2: isUsingSpecUp is true exactly when the manifest does not declare
\* spec-up-t and one of the four signals (name, script fingerprint, dependency
\* fingerprint, repository url) holds
C2_DecisionOrder ==
    Classified => (ret.isUsingSpecUp <=> (~DeclaresSuccessor(arg) /\ AnySignal(arg)))

\* a manifest that declares spec-up-t and is named spec-up: not original
C2_Witness ==
    /\ Classified
    /\ DeclaresSuccessor(arg)
    /\ NameSignal(arg) /\ ScriptSignal(arg) /\ DependencySignal(arg) /\ RepositorySignal(arg)
    /\ ~ret.isUsingSpecUp

\* C3 as stated: every manifest named spec-up with a non-empty version v is
\* classified as the original tool with version v
C3_Original ==
    (Classified /\ NameSignal(arg) /\ NonEmptyString(Get(arg, "version"))) =>
        /\ ret.isUsingSpecUp
        /\ ret.result.isUsingSpecUp
        /\ ret.result.specUpOriginalVersion = Get(arg, "version")

\* C3 amended: every manifest named spec-up with a non-empty version v that
\* does not declare spec-up-t is classified as the original tool with version v
C3_NameMatch ==
    (Classified /\ NameSignal(arg) /\ NonEmptyString(Get(arg, "version"))
        /\ ~DeclaresSuccessor(arg)) =>
        /\ ret.isUsingSpecUp
        /\ ret.specUpVersion = Get(arg, "version")
        /\ ret.result.isUsingSpecUp
        /\ ret.result.specUpOriginalVersion = Get(arg, "version")
        /\ ret.result.specUpVersion = Null

\* a manifest named spec-up, version 0.10.6, whose repository url carries
\* another version tag, has been classified
C3_Witness ==
    /\ Classified
    /\ NameSignal(arg)
    /\ ~DeclaresSuccessor(arg)
    /\ Get(arg, "version") = Str(Version0106)
    /\ Truthy(Get(Get(arg, "repository"), "url"))
    /\ ret.result.specUpOriginalVersion = Str(Version0106)

\* the precondition of C4: only the dependency fingerprint can decide
OnlyDependencies(pkg) ==
    ~DeclaresSuccessor(pkg) /\ ~NameSignal(pkg) /\ ~ScriptSignal(pkg) /\ ~RepositorySignal(pkg)

\* the threshold of C4 for a typical list of n names
ThresholdOver(n) ==
    (Classified /\ OnlyDependencies(arg)) =>
        LET count == Cardinality(TypicalPresent(arg)) IN
        /\ count <= n
        /\ (CorePresent(arg) /\ count = 10) => ret.isUsingSpecUp
        /\ (CorePresent(arg) /\ count = 9) => ~ret.isUsingSpecUp
        /\ ~CorePresent(arg) => ~ret.isUsingSpecUp

\* C4 as stated: the typical list has 23 names; with the 4 core dependencies,
\* 10 of them classify as original and 9 do not; a missing core dependency
\* never classifies as original
C4_Original == ThresholdOver(23)

\* C4 amended: the same threshold, the typical list having 24 names
C4_Threshold == Len(specUpTypicalDeps) = 24 /\ ThresholdOver(24)

\* exactly 10 typical names with the 4 core names: classified as original
C4_Witness ==
    /\ Classified
    /\ OnlyDependencies(arg)
    /\ CorePresent(arg)
    /\ Cardinality(TypicalPresent(arg)) = 10
    /\ ret.isUsingSpecUp

\* the digits of a tag /vX.Y.Z that starts at position p of url: three runs of
\* digits separated by dots, the last run as long as it can be
TagAt(url, p) ==
    {SubSeq(url, p + 2, e) : e \in
        {e \in (p + 2)..Len(url) :
            /\ url[p] = "/" /\ url[p + 1] = "v"
            /\ (e < Len(url) => url[e + 1] \notin Digit)
            /\ \E a, b \in (p + 2)..e :
                /\ a + 1 < b /\ b < e
                /\ url[a] = "." /\ url[b] = "."
                /\ \A i \in ((p + 2)..e) \ {a, b} : url[i] \in Digit}}

\* the digits of the first /vX.Y.Z tag of the manifest's repository.url
UrlTags(pkg) ==
    LET url == Get(Get(pkg, "repository"), "url") IN
    IF url.type # "string" THEN {}
    ELSE LET starts == {p \in 1..Len(url.str) : TagAt(url.str, p) # {}} IN
         IF starts = {} THEN {}
         ELSE TagAt(url.str, CHOOSE p \in starts : \A q \in starts : p <= q)

\* the three sources of the original tool's version: a set with the source's
\* value, empty when the source has none
OwnVersion(pkg) ==
    IF NameSignal(pkg) /\ NonEmptyString(Get(pkg, "version")) THEN {Get(pkg, "version")} ELSE {}

TagVersion(pkg) == {Str(t) : t \in UrlTags(pkg)}

ApproximateVersion(pkg) ==
    IF /\ NonEmptyString(Get(Get(pkg, "dependencies"), "markdown-it"))
       /\ NonEmptyString(Get(Get(pkg, "dependencies"), "gulp"))
       /\ NonEmptyString(Get(pkg, "version"))
    THEN {Str(<<"~">> \o Get(pkg, "version").str)} ELSE {}

\* C5: getSpecUpVersionFromPackageJson returns the first source that has a
\* value, in the order own version, url tag, ~version; null when none has
C5_VersionPrecedence ==
    (Classified /\ Truthy(arg)) =>
        /\ OwnVersion(arg) # {} => ret.specUpVersion \in OwnVersion(arg)
        /\ (OwnVersion(arg) = {} /\ TagVersion(arg) # {}) => ret.specUpVersion \in TagVersion(arg)
        /\ (OwnVersion(arg) = {} /\ TagVersion(arg) = {} /\ ApproximateVersion(arg) # {}) =>
                ret.specUpVersion \in ApproximateVersion(arg)
        /\ (OwnVersion(arg) = {} /\ TagVersion(arg) = {} /\ ApproximateVersion(arg) = {}) =>
                ret.specUpVersion = Null
        /\ (OwnVersion(arg) # {} \/ TagVersion(arg) # {}) =>
                ret.specUpVersion \notin ApproximateVersion(arg)

\* a manifest not named spec-up, with a version, the core signature and a
\* tagged repository url: the tag's digits are returned, not ~version
C5_Witness ==
    /\ Classified
    /\ ~NameSignal(arg)
    /\ ApproximateVersion(arg) # {}
    /\ TagVersion(arg) = {Str(<<"3", ".", "4", "5", ".", "6">>)}
    /\ ret.specUpVersion = Str(<<"3", ".", "4", "5", ".", "6">>)

\* C6: a manifest that matches none of the five tests is classified as the
\* successor tool with a null successor version
C6_Default ==
    (Classified /\ Truthy(arg) /\ ~DeclaresSuccessor(arg) /\ ~AnySignal(arg)) =>
        /\ ret.isUsingSpecUp = FALSE
        /\ ret.specUpTVersion = Null
        /\ ret.result.isUsingSpecUp = FALSE
        /\ ret.result.specUpVersion = Null
        /\ ret.result.specUpOriginalVersion = Null

\* a manifest with dependencies (9 typical names, the core names, an empty
\* spec-up-t range) that matches no test has been classified
C6_Witness ==
    /\ Classified
    /\ Truthy(arg) /\ ~DeclaresSuccessor(arg) /\ ~AnySignal(arg)
    /\ CorePresent(arg)
    /\ Cardinality(TypicalPresent(arg)) = 9
    /\ "spec-up-t" \in DOMAIN Get(arg, "dependencies").obj
    /\ ret.result.specUpVersion = Null
----------------------------------------------------------------------------
(* the repository resolvers and the manifest locator *)

\* one of the two resolvers has been applied to the source reference
ResolverReturnedOn(source) ==
    /\ ret # Pending
    /\ \/ fn = "getRepoUrlString" /\ arg = source
       \/ fn = "extractRepoUrlFromSpecConfig" /\ arg = PageOf(source)

\* {host, account, repo} references, without a url property
HostReferences == {source \in StructuredSources : "url" \notin DOMAIN source.obj}

\* references whose host, account and repo are all non-empty strings
FullReferences ==
    {source \in HostReferences :
        /\ NonEmptyString(Get(source, "host"))
        /\ NonEmptyString(Get(source, "account")) /\ NonEmptyString(Get(source, "repo"))}

CanonicalUrl(source) ==
    Str(GithubPrefix \o Get(source, "account").str \o <<"/">> \o Get(source, "repo").str)

\* C7 as stated: {host:'github', account:a, repo:r} resolves to
\* https://github.com/a/r, and a reference with any other host resolves to null
C7_Original ==
    \A source \in FullReferences :
        ResolverReturnedOn(source) =>
            IF Get(source, "host") = Str(Github)
            THEN ret = Returned(CanonicalUrl(source))
            ELSE ret = Returned(Null)

\* C8 as stated: a reference with host 'github' whose account or repo is
\* missing resolves to null, never to a url built from the absent field
C8_Original ==
    \A source \in HostReferences :
        (/\ ResolverReturnedOn(source)
         /\ Get(source, "host") = Str(Github)
         /\ (Get(source, "account") = Undefined \/ Get(source, "repo") = Undefined))
        => ret = Returned(Null)

\* the host of a url: its characters between :// and the next /
UrlHost(url) ==
    LET start == CHOOSE i \in 1..Len(url) : SubSeq(url, i, i + 2) = <<":", "/", "/">>
        rest == SubSeq(url, start + 3, Len(url))
    IN SubSeq(rest, 1, RunEnd(rest, 1, {"/"}))

CandidatesFor(org, repo) ==
    Arr(<<Str(RawPrefix \o org \o <<"/">> \o repo \o MainPackageJson),
          Str(RawPrefix \o org \o <<"/">> \o repo \o MasterPackageJson)>>)

\* C9 as stated: https://github.com/{org}/{repo}, with or without .git, gives
\* exactly the main and the master candidate for {org}/{repo}, in this order;
\* a url that is not on github.com gives null
C9_Original ==
    (fn = "getRawPackageJsonUrls" /\ ret # Pending) =>
        /\ \A org \in OrgNames, repo \in RepoNames, tail \in {<<>>, DotGit} :
              arg = Str(GithubPrefix \o org \o <<"/">> \o repo \o tail) =>
                  ret = Returned(CandidatesFor(org, repo))
        /\ UrlHost(arg.str) # <<"g", "i", "t", "h", "u", "b", ".", "c", "o", "m">> =>
              ret = Returned(Null)

----------------------------------------------------------------------------
(* the manifest fallback chain of an analysis run *)

\* the requests of manifest candidates: their positions in requests
ManifestRequests ==
    {i \in 1..Len(requests) :
        /\ Len(requests[i].url) >= Len(RawPrefix)
        /\ SubSeq(requests[i].url, 1, Len(RawPrefix)) = RawPrefix}

\* the request at position i is the k-th manifest request of the run
Rank(i) == Cardinality({j \in ManifestRequests : j <= i})

Answered(i) == i <= Len(responses)

AcceptedContentTypes == {Undefined, Str(ApplicationJson), Str(TextPlain), Str(TextPlainUtf8)}

\* a manifest fetch fails on a transport error, a status of 400 or more, a
\* content type that is neither JSON nor plain text, an empty or blank body,
\* and a body that is no JSON text
FetchFails(answer) ==
    \/ answer.kind = "error"
    \/ /\ answer.kind = "response"
       /\ \/ answer.statusCode >= 400
          \/ Get(answer.headers, "content-type") \notin AcceptedContentTypes
          \/ answer.body.doc.type # "json"

ServedManifest(answer) == answer.body.doc.value

\* the classification of manifest m, as it shows in a result
ClassifiedFrom(res, m) ==
    /\ res.isUsingSpecUp = isUsingSpecUp(m)
    /\ res.specUpOriginalVersion =
            (IF isUsingSpecUp(m) THEN getSpecUpVersionFromPackageJson(m) ELSE Null)
    /\ res.specUpVersion =
            (IF isUsingSpecUp(m) THEN Null ELSE getSpecUpTVersionFromPackageJson(m))

\* C10: the manifest candidates of the repository are requested in order,
\* main then master, each at most once; a candidate is requested only after
\* every earlier one has failed, so no candidate is requested after a fetch
\* that succeeds, and master is requested as soon as main has failed; when
\* main fails and master succeeds with a manifest, the result holds the
\* classification of the master manifest and no error.
C10_FallbackChain ==
    /\ \A i \in ManifestRequests :
          /\ Rank(i) <= 2
          /\ requests[i] = Request("GET", CandidatesFor(Foo, Bar).items[Rank(i)].str)
    /\ \A i, j \in ManifestRequests :
          i < j => Answered(i) /\ FetchFails(responses[i])
    /\ \A i \in ManifestRequests :
          (Rank(i) = 1 /\ Answered(i) /\ FetchFails(responses[i])) =>
              \E j \in ManifestRequests : Rank(j) = 2
    /\ \A i, j \in ManifestRequests :
          (/\ i < j /\ Answered(j) /\ ~FetchFails(responses[j])
           /\ ServedManifest(responses[j]).type = "object") =>
              /\ ClassifiedFrom(run.result, ServedManifest(responses[j]))
              /\ run.result.error = Null

\* a finished run whose main candidate was answered with 404 and whose
\* master candidate served the manifest of the original tool
C10_Witness ==
    /\ pc = "done"
    /\ \E i, j \in ManifestRequests :
          /\ i < j
          /\ responses[i].kind = "response" /\ responses[i].statusCode = 404
          /\ ~FetchFails(responses[j])
          /\ ServedManifest(responses[j]).type = "object"
          /\ Get(ServedManifest(responses[j]), "name") = Str(SpecUpName)
    /\ run.result.isUsingSpecUp
    /\ run.result.specUpOriginalVersion = Str(Version0106)
    /\ run.result.error = Null

----------------------------------------------------------------------------
(* what a run tells its caller of the manifest errors *)

AllCandidatesFailed ==
    /\ Cardinality(ManifestRequests) = 2
    /\ \A i \in ManifestRequests : Answered(i) /\ FetchFails(responses[i])

\* the error the fetch of the k-th candidate was rejected with
CandidateError(k) ==
    LET i == CHOOSE i \in ManifestRequests : Rank(i) = k IN fetchPackageJson(responses[i]).error

\* error e shows in the result or in a card of the written report
Surfaced(e) ==
    \/ run.result.error = e
    \/ /\ cli.report # Null
       /\ \E c \in 1..Len(cli.report.items) :
             \E t \in 1..Len(cli.report.items[c].content) :
                Includes(cli.report.items[c].content[t], e.message)

\* C11 as stated: when the main and the master candidate have both failed, a
\* finished run shows the error of the master fetch in its result or in its
\* written report
C11_Original ==
    (pc = "exited" /\ cli.report # Null /\ AllCandidatesFailed) => Surfaced(CandidateError(2))

----------------------------------------------------------------------------
(* the url normalizer *)

Normalized == fn = "normalizeUrl" /\ ret # Pending

StartsWith(s, prefix) == Len(s) >= Len(prefix) /\ SubSeq(s, 1, Len(prefix)) = prefix

EndsWithSlash(s) == Len(s) > 0 /\ s[Len(s)] = "/"

\* C12 as stated: whatever the input, the normalized url starts with http://
\* or https:// in some letter case and does not end with a slash
C12_Original ==
    Normalized =>
        /\ \E scheme \in {Http, Https} :
              StartsWith(toLowerCase(ret.value.str), scheme)
        /\ ~EndsWithSlash(ret.value.str)

\* s without its last character when that is a slash
DropOneSlash(s) == IF EndsWithSlash(s) THEN SubSeq(s, 1, Len(s) - 1) ELSE s

\* C13: the white space around the input is dropped; https:// is put before
\* it exactly when it does not begin with http:// or https:// in some letter
\* case, a scheme it has being kept as written; then one trailing slash is
\* removed if there is one, and no more than one
C13_NormalizerRule ==
    Normalized =>
        \A lead \in LeadingSpaces, body \in UrlBodies, slashes \in TrailingSlashes,
           trail \in TrailingSpaces :
            /\ \A scheme \in KnownSchemes :
                  arg = RawUrl(lead, scheme, body, slashes, trail)
                      => ret.value = Str(DropOneSlash(scheme \o body \o slashes))
            /\ \A scheme \in OtherSchemes :
                  arg = RawUrl(lead, scheme, body, slashes, trail)
                      => ret.value = Str(DropOneSlash(Https \o scheme \o body \o slashes))

\* 'HTTP://X.com' is returned as it is, and ' example.com/spec/' becomes
\* 'https://example.com/spec'
C13_Witness ==
    /\ Normalized
    /\ \/ /\ arg = Str(<<"H", "T", "T", "P", ":", "/", "/", "X", ".", "c", "o", "m">>)
          /\ ret.value = arg
       \/ /\ arg = Str(<<" ", "e", "x", "a", "m", "p", "l", "e", ".", "c", "o", "m", "/", "s", "p", "e", "c", "/">>)
          /\ ret.value = Str(Https \o <<"e", "x", "a", "m", "p", "l", "e", ".", "c", "o", "m", "/", "s", "p", "e", "c">>)

----------------------------------------------------------------------------
(* the check of index.pdf *)

\* the position in requests of the request of index.pdf under the input url
PdfRequests == {i \in 1..Len(requests) : requests[i] = Request("GET", pdfUrl(run.normalizedUrl.str))}

IsRedirect(answer) ==
    /\ answer.kind = "response"
    /\ answer.statusCode >= 300 /\ answer.statusCode < 400
    /\ Get(answer.headers, "location") \in {Str(CdnUrl)}

PdfFound == run.result.pdfExists = TRUE /\ run.result.pdfError = Null
PdfMissing == run.result.pdfExists = FALSE /\ run.result.pdfError = Null
PdfFailed == run.result.pdfExists = FALSE /\ run.result.pdfError # Null

\* the answer is mapped to found, missing or failed, a redirect being failed
PdfMapped(answer) ==
    IF answer.kind = "response" /\ answer.statusCode = 200 THEN PdfFound
    ELSE IF answer.kind = "response" /\ answer.statusCode = 404 THEN PdfMissing
    ELSE PdfFailed

\* the target of a redirect as the Location header names it
LocationTarget(location) == location

\* The outcome of the check, Followed(location) being the url requested
\* after a redirect to location: 200 is found, 404 is missing, a redirect is
\* followed and the answer of the second request is mapped in the same
\* way, and everything else is an error.
PdfOutcomeMapping(Followed(_)) ==
    \A i \in PdfRequests :
        Answered(i) =>
            IF IsRedirect(responses[i])
            THEN /\ Len(requests) > i
                 /\ requests[i + 1] = Request("GET", Followed(Get(responses[i].headers, "location").str))
                 /\ Answered(i + 1) => PdfMapped(responses[i + 1])
            ELSE PdfMapped(responses[i])

\* C14 as stated: a 200 answer to {base}/index.pdf gives exists = true, a 404
\* gives exists = false, a redirect with a Location header is followed once
\* to its target and the answer of the target is mapped in the same way, and
\* every other status, a transport failure and a timeout give an error
C14_Original == PdfOutcomeMapping(LocationTarget)

\* what the code does: the request after a redirect goes to the target with
\* '/index.pdf' appended once more
PdfOutcomeAsCoded == PdfOutcomeMapping(pdfUrl)

----------------------------------------------------------------------------
(* failures of the auxiliary checks *)

\* the answer makes the check of index.pdf fail
PdfErrorAnswer(answer) ==
    /\ ~IsRedirect(answer)
    /\ answer.kind = "response" => answer.statusCode \notin {200, 404}

\* the check of index.pdf has failed, at once or after a redirect
PdfCheckFailed ==
    \E i \in PdfRequests :
        /\ Answered(i)
        /\ IF IsRedirect(responses[i])
           THEN Answered(i + 1) /\ PdfErrorAnswer(responses[i + 1])
           ELSE PdfErrorAnswer(responses[i])

VersionsRequests ==
    {i \in 1..Len(requests) : requests[i] = Request("HEAD", versionsUrl(run.normalizedUrl.str))}

\* the stages of analyzeSpec before it returns
AnalysisStages ==
    {"analyzeSpec", "getLastModified", "fetchAndAnalyzeHtml", "fetchIndexHtml", "checkIndexPdf",
     "checkIndexPdfExists", "getRawPackageJsonUrls", "fetchPackageJson", "checkVersions",
     "versionsExists", "listVersionDirectories"}

\* the repository the run resolved has manifest candidates
HasCandidates == Truthy(getRawPackageJsonUrls(getRepoUrlString(run.repo).value))

EveryCheckFailed ==
    /\ pc = "done"
    /\ \A i \in 1..Len(responses) : responses[i].kind = "error"
    /\ Cardinality(ManifestRequests) = 2
    /\ run.result.error = Null

----------------------------------------------------------------------------
(* the probe of the version directories *)

\* the candidate names as the claim lists them
ListedCandidates ==
    [i \in 1..20 |-> IF i < 10 THEN <<"v", DecimalDigits[i + 1]>>
                     ELSE <<"v", DecimalDigits[(i \div 10) + 1], DecimalDigits[(i % 10) + 1]>>]
    \o <<<<"1", ".", "0">>, <<"v", "1", ".", "0">>, <<"v", "1", ".", "0", ".", "0">>,
         <<"2", ".", "0">>, <<"v", "2", ".", "0">>, <<"v", "2", ".", "0", ".", "0">>,
         <<"l", "a", "t", "e", "s", "t">>, <<"s", "t", "a", "b", "l", "e">>,
         <<"c", "u", "r", "r", "e", "n", "t">>, <<"n", "e", "x", "t">>, <<"b", "e", "t", "a">>>>

\* the number of candidate probes made after the versions request at v
Probes(v) == Len(requests) - v

\* the probe at position i was answered, and the directory is missing
Missed(i) == Answered(i) /\ ~checkDirectoryExists(responses[i])

\* the k-th probe after v and the two before it missed
ThreeMissed(v, k) == k >= 3 /\ Missed(v + k) /\ Missed(v + k - 1) /\ Missed(v + k - 2)

\* C16: candidates are probed only after versions/ was found; the probes go
\* through the listed candidates in order (v1 to v20, then the tags), each
\* one requested after the one before it was answered; no candidate is
\* requested after three candidates in a row were missing, a candidate that
\* exists starting the count again, and until then the next candidate is
\* requested; so there are never more than 31 probes.
C16_StopRule ==
    \A v \in VersionsRequests :
        /\ Probes(v) > 0 => Answered(v) /\ checkDirectoryExists(responses[v])
        /\ Probes(v) <= 31
        /\ \A k \in 1..Probes(v) :
              /\ requests[v + k] =
                    Request("HEAD", versionsUrl(run.normalizedUrl.str) \o ListedCandidates[k] \o <<"/">>)
              /\ k > 1 => Answered(v + k - 1)
              /\ ThreeMissed(v, k) => Probes(v) = k
              /\ (Answered(v + k) /\ ~ThreeMissed(v, k) /\ k < 31) => Probes(v) > k

\* a finished run on a site with v1, v3 and v4, where v2 is missing, v3
\* redirects, and the probes of v5, v6 and v7 are refused, time out and
\* miss: seven probes are made and three directories are listed
C16_Witness ==
    /\ pc = "done"
    /\ \E v \in VersionsRequests :
          /\ Probes(v) = 7
          /\ Missed(v + 2) /\ ~Missed(v + 3) /\ ~Missed(v + 4)
          /\ ThreeMissed(v, 7)
    /\ run.result.versionInfo.versions = <<Str(<<"v", "1">>), Str(<<"v", "3">>), Str(<<"v", "4">>)>>

\* a finished run on a site where every candidate exists: 31 probes
EveryCandidateProbed ==
    pc = "done" /\ \E v \in VersionsRequests : Probes(v) = 31 /\ run.result.versionInfo.count = 31

----------------------------------------------------------------------------
(* the exit code of the command line *)

ArgumentMissing == ~Truthy(cli.argv)

\* analyzeSpec has returned and the report was not written
ReportFailed == ~ArgumentMissing /\ run.result.versionInfo # Null /\ cli.report = Null

IndexHtmlRequests ==
    {i \in 1..Len(requests) : requests[i] = Request("GET", run.normalizedUrl.str \o IndexHtml)}

\* An exception was thrown while the analysis ran: the fetch of index.html
\* was rejected, no manifest candidate could be constructed (analyzer.js
\* 119), or the fetch of a manifest candidate was rejected.
ThrownDuringAnalysis ==
    /\ ~ArgumentMissing
    /\ \/ \E i \in IndexHtmlRequests : Answered(i) /\ responses[i].kind = "error"
       \/ run.pkgUrls = Null
       \/ \E m \in ManifestRequests : Answered(m) /\ FetchFails(responses[m])

----------------------------------------------------------------------------
(* the source reference of the site and the repository of the result *)

\* index.html was served with a page at position i of the responses
PageServed(i) ==
    /\ i \in IndexHtmlRequests /\ Answered(i)
    /\ responses[i].kind = "response" /\ responses[i].statusCode = 200
    /\ Len(responses[i].body.doc.scripts) > 0

\* the source of the specConfig of the page served at i
ServedSource(i) == Get(responses[i].body.doc.scripts[1].outcome, "source")

\* the source names a host other than GitHub
NonGithubHost(source) ==
    \/ source.type = "string" /\ ~Includes(source.str, GithubCom)
    \/ /\ source.type = "object" /\ Get(source, "host").type = "string"
       /\ toLowerCase(Get(source, "host").str) # Github

\* C18 as stated: when the source of the site names a host other than
\* GitHub, as a url string or as the host of a structured reference, the
\* result of the run has a null repository or holds an error
C18_Original ==
    pc = "done" =>
        \A i \in 1..Len(responses) :
            (PageServed(i) /\ NonGithubHost(ServedSource(i))) =>
                (run.result.repo = Null \/ run.result.error # Null)

\* what the code does for such a source: the repository of the result is
\* the url string of the source, or the input url for a structured
\* reference; no error is recorded and no manifest is requested
NonGithubAsCoded ==
    pc = "done" =>
        \A i \in 1..Len(responses) :
            (PageServed(i) /\ NonGithubHost(ServedSource(i))) =>
                /\ run.result.repo =
                      (IF ServedSource(i).type = "string" THEN ServedSource(i) ELSE run.normalizedUrl)
                /\ run.result.error = Null
                /\ ManifestRequests = {}
                /\ run.result.specUpVersion = Null /\ ~run.result.isUsingSpecUp

\* a structured source that does not resolve: it has no url, and its host is
\* not GitHub or one of host, account and repo is missing
Unresolvable(source) ==
    /\ source.type = "object"
    /\ ~Truthy(Get(source, "url"))
    /\ \/ NonGithubHost(source)
       \/ \E field \in {"host", "account", "repo"} : ~Truthy(Get(source, field))

\* the stages of a run in which fetchAndAnalyzeHtml has returned
AfterHtml ==
    {"checkIndexPdf", "checkIndexPdfExists", "getRawPackageJsonUrls", "fetchPackageJson",
     "checkVersions", "versionsExists", "listVersionDirectories", "done", "open"}

\* C19: when the fetch of index.html fails, when the page has no specConfig
\* with a source, and when the source is a structured reference that does
\* not resolve, the repository of the run and of its result is the
\* normalized input url; the repository of the result is a string in every
\* case.
C19_Fallback ==
    /\ \A i \in IndexHtmlRequests :
          (/\ Answered(i)
           /\ \/ responses[i].kind = "error"
              \/ responses[i].kind = "response" /\ Len(responses[i].body.doc.scripts) = 0
              \/ PageServed(i) /\ Unresolvable(ServedSource(i)))
          => run.repo = run.normalizedUrl /\ run.result.repo = run.normalizedUrl
    /\ pc \in AfterHtml =>
          /\ run.result.repo.type = "string"
          /\ run.result.repo = run.repo

\* a finished run on a site whose structured source has no repo field: the
\* repository of the result is the input url
C19_Witness ==
    /\ pc = "done"
    /\ \E i \in IndexHtmlRequests :
          /\ PageServed(i)
          /\ Unresolvable(ServedSource(i))
          /\ ~NonGithubHost(ServedSource(i))
    /\ run.result.repo = Str(OtherSite)

\* finished runs where index.html was refused and where it was not found
FallbackOnFailedFetch ==
    pc = "done" /\ responses[2].kind = "error" /\ run.result.repo = Str(OtherSite)
FallbackOnMissingConfig ==
    /\ pc = "done" /\ responses[2].kind = "response" /\ responses[2].statusCode = 404
    /\ 2 \in IndexHtmlRequests /\ run.result.repo = Str(OtherSite)

----------------------------------------------------------------------------
(* an input url that is a repository url *)

\* a run is under way on a url that contains 'github.com'
RepositoryInput ==
    run.normalizedUrl.type = "string" /\ Includes(run.normalizedUrl.str, GithubCom)

\* a request of an index.html, whatever its url
HtmlRequests ==
    {i \in 1..Len(requests) :
        /\ requests[i].method = "GET"
        /\ Len(requests[i].url) >= Len(IndexHtml)
        /\ SubSeq(requests[i].url, Len(requests[i].url) - Len(IndexHtml) + 1, Len(requests[i].url))
              = IndexHtml}

\* C20: on an input url that contains 'github.com' no index.html is ever
\* requested, and once fetchAndAnalyzeHtml has returned the repository of
\* the result is the input url, so no page had a say in it; on any other
\* input url {url}/index.html has been requested by then.
C20_SkipHtml ==
    /\ RepositoryInput =>
          /\ HtmlRequests = {}
          /\ pc \notin {"fetchIndexHtml"}
          /\ pc \in AfterHtml => run.repo = run.normalizedUrl /\ run.result.repo = run.normalizedUrl
    /\ (run.normalizedUrl.type = "string" /\ ~RepositoryInput /\ pc \in AfterHtml) =>
          /\ IndexHtmlRequests # {}
          /\ HtmlRequests = IndexHtmlRequests

\* a finished run on https://github.com/foo/bar: the manifest was fetched
\* for that repository and index.html was not requested
C20_Witness ==
    /\ pc = "done"
    /\ run.normalizedUrl = Str(GithubRepo)
    /\ run.result.repo = Str(GithubRepo)
    /\ HtmlRequests = {}
    /\ ManifestRequests # {}
    /\ run.result.isUsingSpecUp

----------------------------------------------------------------------------
(* the classifier as a function of its manifest *)

----------------------------------------------------------------------------
(* the order of the stages of a run *)

EndsWith(s, suffix) ==
    Len(s) >= Len(suffix) /\ SubSeq(s, Len(s) - Len(suffix) + 1, Len(s)) = suffix

\* The stage the request at position i belongs to: 1 the last-modified
\* probe, 2 the fetch of index.html, 3 the check of index.pdf with its
\* redirect hops, 4 the manifest fetch, 5 the probe of the versions.
Stage(i) ==
    IF requests[i] = Request("HEAD", withTrailingSlash(run.normalizedUrl.str)) THEN 1
    ELSE IF requests[i] = Request("GET", run.normalizedUrl.str \o IndexHtml) THEN 2
    ELSE IF requests[i].method = "GET" /\ EndsWith(requests[i].url, IndexPdf) THEN 3
    ELSE IF requests[i].method = "GET" /\ StartsWith(requests[i].url, RawPrefix) THEN 4
    ELSE IF requests[i].method = "HEAD"
            /\ StartsWith(requests[i].url, versionsUrl(run.normalizedUrl.str)) THEN 5
    ELSE 0

Stages == {Stage(i) : i \in 1..Len(requests)}

\* every request was answered and analyzeSpec has returned
AnalysisFinished ==
    /\ Len(responses) = Len(requests)
    /\ run.result.versionInfo # Null

\* C22 as stated: no request of the check of index.pdf and none of the
\* probe of the versions is made before the manifest requests of the run,
\* and the report is rendered after the analysis has finished
C22_Original ==
    /\ \A j \in ManifestRequests : \A i \in 1..(j - 1) : Stage(i) \notin {3, 5}
    /\ cli.report # Null => AnalysisFinished

\* C22 amended: the requests of a run are made stage by stage in the order
\* last-modified probe, index.html, check of index.pdf, manifest, versions;
\* the check of index.pdf starts when the repository is resolved and before
\* the manifest is requested, the versions are probed after the manifest
\* was fetched and classified, and the report is rendered after all of it.
C22_StageOrder ==
    LET stage == [i \in 1..Len(requests) |-> Stage(i)]
        stages == {stage[i] : i \in 1..Len(requests)}
    IN /\ \A i \in 1..Len(requests) :
             /\ stage[i] # 0
             /\ i > 1 => stage[i - 1] <= stage[i]
       /\ 3 \in stages => run.result.repo # Null
       /\ (4 \in stages \/ 5 \in stages) =>
             /\ 3 \in stages
             /\ \A i \in 1..Len(requests) : stage[i] = 3 => Answered(i)
       /\ 5 \in stages =>
             \A m \in ManifestRequests :
                 /\ Answered(m)
                 /\ (~FetchFails(responses[m]) /\ ServedManifest(responses[m]).type = "object")
                       => ClassifiedFrom(run.result, ServedManifest(responses[m]))
       /\ cli.report # Null => AnalysisFinished /\ pc \in {"open", "exited"}

\* the report of a run that went through all five stages, the check of
\* index.pdf with a redirect hop, is written
C22_Witness ==
    /\ cli.report # Null
    /\ Stages = {1, 2, 3, 4, 5}
    /\ Cardinality({i \in 1..Len(requests) : Stage(i) = 3}) = 2
    /\ run.result.isUsingSpecUp

----------------------------------------------------------------------------
(* one request at a time *)

\* the stages in which analyzeSpec waits for the answer to a request
AwaitingStages ==
    {"getLastModified", "fetchIndexHtml", "checkIndexPdfExists", "fetchPackageJson",
     "versionsExists", "listVersionDirectories"}

\* the number of requests that have no answer yet
Outstanding == Len(requests) - Len(responses)

\* C23: at most one request of a run is without its response, error or
\* timeout at any time, and there is one exactly while the run waits in the
\* last-modified probe, the fetch of index.html, the check of index.pdf or
\* one of its redirect hops, the fetch of a manifest candidate or a probe of
\* the versions; so every request is made after the one before it was
\* answered.
C23_OneAtATime ==
    /\ Len(responses) <= Len(requests)
    /\ Outstanding <= 1
    /\ Outstanding = 1 <=> pc \in AwaitingStages

\* a finished run that made a redirect hop of the check of index.pdf,
\* requested both manifest candidates and probed seven version directories
C23_Witness ==
    /\ pc = "done"
    /\ Outstanding = 0
    /\ Cardinality({i \in 1..Len(requests) : Stage(i) = 3}) = 2
    /\ Cardinality(ManifestRequests) = 2
    /\ \E v \in VersionsRequests : Probes(v) = 7

----------------------------------------------------------------------------
(* One call of checkIndexPdfExists or of checkDirectoryExists against a    *)
(* server, up to its callback.  arg is the server: what it answers to the  *)
(* request of each url, or that it never answers.  Only the request that   *)
(* is under way and the latest answer are kept in requests and responses,  *)
(* so that a server that redirects in a circle is a server of the model.   *)

MirrorUrl == <<"h", "t", "t", "p", "s", ":", "/", "/", "m", ".", "i", "o", "/", "b">>

\* the server never answers the request
Silent == [kind |-> "silent"]

\* what a server does with a request of an index.pdf
PdfServerAnswers ==
    {Response(200, EmptyObject, NoBody), Response(404, EmptyObject, NoBody),
     Response(500, EmptyObject, NoBody), Response(302, Property("location", Str(CdnUrl)), NoBody),
     Response(302, Property("location", Str(MirrorUrl)), NoBody), Refused, Silent}

\* what a server does with the request of a directory
DirectoryServerAnswers ==
    {Response(200, EmptyObject, NoBody), Response(301, EmptyObject, NoBody),
     Response(404, EmptyObject, NoBody), Refused, Silent}

\* a server: its answers at the site, at the cdn and at the mirror
Server(site, cdn, mirror) == [type |-> "server", site |-> site, cdn |-> cdn, mirror |-> mirror]

\* a redirect to location
RedirectTo(location) == Response(302, Property("location", Str(location)), NoBody)

\* (no url redirects to itself: a circle has two urls, so that every hop of
\* it is a step that changes the request under way)
PdfServers ==
    {Server(site, cdn, mirror) :
        site \in PdfServerAnswers,
        cdn \in PdfServerAnswers \ {RedirectTo(CdnUrl)},
        mirror \in PdfServerAnswers \ {RedirectTo(MirrorUrl)}}

DirectoryServers == {Server(site, Silent, Silent) : site \in DirectoryServerAnswers}

\* what the server does with the request of url
AnswerOf(server, url) ==
    IF StartsWith(url, CdnUrl) THEN server.cdn
    ELSE IF StartsWith(url, MirrorUrl) THEN server.mirror
    ELSE server.site

InitOp ==
    /\ \/ fn = "checkIndexPdfExists" /\ arg \in PdfServers
       \/ fn = "checkDirectoryExists" /\ arg \in DirectoryServers
    /\ ret = Pending
    /\ pc = "call"
    /\ run = NewRun(Undefined)
    /\ cli = NewCli(Undefined)
    /\ requests = <<>>
    /\ responses = <<>>

\* the call up to its request: analyzer.js 273 to 279, part_002 185 to 217
SendRequest ==
    /\ pc = "call"
    /\ requests' = IF fn = "checkIndexPdfExists"
                   THEN <<Request("GET", pdfUrl(OtherSite))>>
                   ELSE <<Request("HEAD", versionsUrl(OtherSite))>>
    /\ pc' = "awaiting"
    /\ UNCHANGED <<fn, arg, ret, run, responses, cli>>

\* What the operation does with an answer: checkIndexPdfExists calls back,
\* or calls itself on the redirect url (analyzer.js 279 to 298);
\* checkDirectoryExists resolves (part_002 201 to 211).
Settle(answer) ==
    /\ responses' = <<answer>>
    /\ IF fn = "checkIndexPdfExists"
       THEN LET done == checkIndexPdfExists(answer) IN
            IF done.type = "redirected"
            THEN /\ requests' = <<Request("GET", pdfUrl(done.redirectUrl))>>
                 /\ UNCHANGED <<ret, pc>>
            ELSE /\ ret' = Returned(done)
                 /\ pc' = "returned"
                 /\ UNCHANGED requests
       ELSE /\ ret' = Returned([type |-> "checked", exists |-> checkDirectoryExists(answer)])
            /\ pc' = "returned"
            /\ UNCHANGED requests
    /\ UNCHANGED <<fn, arg, run, cli>>

\* the response callback or the 'error' event of the request under way
ServerAnswers ==
    /\ pc = "awaiting"
    /\ AnswerOf(arg, requests[1].url) # Silent
    /\ Settle(AnswerOf(arg, requests[1].url))

\* the timeout of the request under way: req.setTimeout(10000, ...) of
\* analyzer.js 301 to 304, timeout: 5000 and req.on('timeout') of part_002
\* 198 and 213 to 217
TimeoutFires ==
    /\ pc = "awaiting"
    /\ AnswerOf(arg, requests[1].url) = Silent
    /\ Settle(TimedOut)

NextOp ==
    \/ SendRequest
    \/ ServerAnswers
    \/ TimeoutFires

\* the event loop runs the callback of an answer that has arrived and of a
\* timer that has expired
SpecOp == InitOp /\ [][NextOp]_vars /\ WF_vars(NextOp)

\* C24 as stated: a check of index.pdf and a probe of a directory that
\* wait for an answer come to their callback, whatever the server does: a
\* server that never answers is cut off by the timeout, and a redirect
\* whose target redirects again does not keep the check running for ever
C24_Original == (pc = "awaiting") ~> (pc = "returned")

\* a probe of a directory always comes to its callback
CompletesFor(operation) == (fn = operation /\ pc = "awaiting") ~> (pc = "returned")
DirectoryProbeCompletes == CompletesFor("checkDirectoryExists")

\* a request the server never answers is ended by the timeout
TimeoutCutsOff ==
    (pc = "awaiting" /\ AnswerOf(arg, requests[1].url) = Silent) ~> (pc = "returned")

----------------------------------------------------------------------------
(* the result of the probe of the versions *)

\* the request at position i was answered with a 2xx or 3xx status
Hit(i) ==
    /\ Answered(i)
    /\ responses[i].kind = "response"
    /\ responses[i].statusCode >= 200 /\ responses[i].statusCode < 400

\* the names of the first k candidates probed after v that were hit, in
\* the order of the candidate list
RECURSIVE FoundAmong(_, _)
FoundAmong(v, k) ==
    IF k = 0 THEN <<>>
    ELSE IF Hit(v + k) THEN Append(FoundAmong(v, k - 1), Str(ListedCandidates[k]))
    ELSE FoundAmong(v, k - 1)

\* C25: the versions of the result are the probed candidates that answered
\* with a 2xx or 3xx status, in the order of the candidate list and each
\* once; count is their number; when versions/ itself answers with a
\* status of 400 or more, is refused or times out, the result is exists =
\* false with count 0 and no versions, and no candidate is probed.
C25_ResultShape ==
    run.result.versionInfo # Null =>
        \E v \in VersionsRequests :
            LET info == run.result.versionInfo IN
            /\ info.count = Len(info.versions)
            /\ \A i, j \in 1..Len(info.versions) : i < j => info.versions[i] # info.versions[j]
            /\ IF Hit(v)
               THEN info.exists /\ info.versions = FoundAmong(v, Probes(v))
               ELSE ~info.exists /\ info.count = 0 /\ info.versions = <<>> /\ Probes(v) = 0

\* a finished run on a site whose versions/ redirects and holds v1 and v2
C25_Witness ==
    /\ pc = "done"
    /\ \E v \in VersionsRequests : responses[v].kind = "response" /\ responses[v].statusCode = 301
    /\ run.result.versionInfo.exists
    /\ run.result.versionInfo.count = 2
    /\ run.result.versionInfo.versions = <<Str(<<"v", "1">>), Str(<<"v", "2">>)>>

\* a finished run on a site without versions/: nothing probed, nothing listed
NoVersionsDirectory ==
    /\ pc = "done"
    /\ \E v \in VersionsRequests : ~Hit(v) /\ Probes(v) = 0
    /\ ~run.result.versionInfo.exists /\ run.result.versionInfo.count = 0

----------------------------------------------------------------------------
(* the two version fields of the result *)

\* the manifest stage is over and no manifest was obtained: there was no
\* candidate, or every candidate failed
NoManifestObtained ==
    /\ pc \in {"checkVersions", "versionsExists", "listVersionDirectories", "done", "open", "exited"}
    /\ run.normalizedUrl.type = "string"
    /\ \A m \in ManifestRequests : Answered(m) /\ FetchFails(responses[m])

\* C26: in the result of a run, at every point of it, isUsingSpecUp = true
\* goes with a null specUpVersion and isUsingSpecUp = false with a null
\* specUpOriginalVersion; when no manifest was obtained the result is
\* isUsingSpecUp = false with both versions null.
C26_ExclusiveVersions ==
    /\ run.result.isUsingSpecUp => run.result.specUpVersion = Null
    /\ ~run.result.isUsingSpecUp => run.result.specUpOriginalVersion = Null
    /\ NoManifestObtained =>
          /\ ~run.result.isUsingSpecUp
          /\ run.result.specUpVersion = Null
          /\ run.result.specUpOriginalVersion = Null

\* finished runs: the original tool with its version, the successor with
\* its range, and a repository whose two candidates failed
OriginalClassified ==
    /\ pc = "done" /\ run.result.isUsingSpecUp
    /\ run.result.specUpOriginalVersion = Str(Version0106) /\ run.result.specUpVersion = Null
SuccessorClassified ==
    /\ pc = "done" /\ ~run.result.isUsingSpecUp
    /\ run.result.specUpVersion = Str(CaretRange) /\ run.result.specUpOriginalVersion = Null
C26_Witness ==
    /\ pc = "done"
    /\ NoManifestObtained
    /\ Cardinality(ManifestRequests) = 2
    /\ ~run.result.isUsingSpecUp
    /\ run.result.specUpVersion = Null /\ run.result.specUpOriginalVersion = Null

----------------------------------------------------------------------------
(* the catch of analyzeSpec *)

----------------------------------------------------------------------------
(* a manifest that parses to a falsy value *)

\* the fetch of the candidate at position m resolved with a falsy value
ResolvedFalsy(m) ==
    /\ Answered(m)
    /\ ~FetchFails(responses[m])
    /\ ~Truthy(ServedManifest(responses[m]))

\* C28: a candidate whose fetch resolves ends the loop whatever the value:
\* when the body of a candidate is JSON text for null or for another falsy
\* value, no candidate is requested after it, nothing is classified, and
\* the result keeps isUsingSpecUp = false and both versions null, with no
\* error.
C28_FalsyManifest ==
    \A m \in ManifestRequests :
        (Answered(m) /\ ~FetchFails(responses[m])) =>
            /\ \A n \in ManifestRequests : n <= m
            /\ ResolvedFalsy(m) =>
                  /\ run.pkg = ServedManifest(responses[m])
                  /\ ~run.result.isUsingSpecUp
                  /\ run.result.specUpVersion = Null
                  /\ run.result.specUpOriginalVersion = Null
                  /\ run.result.error = Null

\* a finished run whose main candidate served the JSON text null: master
\* was not requested
C28_Witness ==
    /\ pc = "done"
    /\ Cardinality(ManifestRequests) = 1
    /\ \E m \in ManifestRequests :
          /\ ResolvedFalsy(m)
          /\ ServedManifest(responses[m]) = Null
          /\ requests[m] = Request("GET", CandidatesFor(Foo, Bar).items[1].str)
    /\ ~run.result.isUsingSpecUp

\* the same with the JSON text of the empty string
EmptyStringManifest ==
    /\ pc = "done"
    /\ Cardinality(ManifestRequests) = 1
    /\ \E m \in ManifestRequests : ResolvedFalsy(m) /\ ServedManifest(responses[m]) = Str(<<>>)

----------------------------------------------------------------------------
(* the repository name the manifest locator takes from a url *)

\* the characters of s before its first '.' or '/'
RECURSIVE NameRun(_)
NameRun(s) ==
    IF s = <<>> \/ Head(s) \in {".", "/"} THEN <<>>
    ELSE <<Head(s)>> \o NameRun(Tail(s))

\* for a url https://github.com/{org}/{repo}{tail} the candidates are those
\* of {org} and of the characters of {repo} before its first dot
RepoRunRule ==
    (fn = "getRawPackageJsonUrls" /\ ret # Pending) =>
        \A org \in OrgNames, repo \in RepoNames, tail \in UrlTails :
            arg = Str(GithubPrefix \o org \o <<"/">> \o repo \o tail) =>
                ret = Returned(CandidatesFor(org, NameRun(repo)))

\* C29 as stated: the repository of the candidates is what follows {org}/
\* up to the first '.' or '/', so that path segments after the repository
\* are ignored and a dotted name is cut at its first dot; and a url that
\* does not begin with 'https://github.com/' gives null
C29_Original ==
    /\ RepoRunRule
    /\ (fn = "getRawPackageJsonUrls" /\ ret # Pending /\ ~StartsWith(arg.str, GithubPrefix))
          => ret = Returned(Null)

\* of the urls that do not begin with 'https://github.com/', those with the
\* http scheme and those on www.github.com and gitlab.com give null
OtherUrlsRule ==
    (/\ fn = "getRawPackageJsonUrls" /\ ret # Pending
     /\ ~StartsWith(arg.str, GithubPrefix)
     /\ ~StartsWith(arg.str, <<"h", "t", "t", "p", "s", ":", "/", "/", "g", "i", "t", "h", "u", "b", "x">>))
        => ret = Returned(Null)

----------------------------------------------------------------------------
(* the literal tags among the versions of the result *)

\* the names of the versions of the result
ListedNames ==
    IF run.result.versionInfo = Null THEN {}
    ELSE {run.result.versionInfo.versions[i].str : i \in 1..Len(run.result.versionInfo.versions)}

\* the candidates numbered from..to that the result lists
ListedOf(from, to) == {i \in from..to : ListedCandidates[i] \in ListedNames}

\* the directory of the candidate numbered i is not there on the site of
\* the run
Absent(i) == run.site # NoSite /\ ~checkDirectoryExists(ProbeAnswer(run.site, i))

\* C30: a literal tag is among the versions of the result only if one of
\* v18, v19, v20 is among them too; and on a site without v1, v2 and v3
\* the versions of the result are empty, whatever else the site holds
C30_TagsAfterNumbers ==
    run.result.versionInfo # Null =>
        /\ ListedOf(21, 31) # {} => ListedOf(18, 20) # {}
        /\ (Absent(1) /\ Absent(2) /\ Absent(3)) => run.result.versionInfo.versions = <<>>

\* a finished run on a site that holds every third candidate: of v18, v19
\* and v20 only v18 is listed, and the tags 1.0, 2.0, latest and next are
C30_Witness ==
    /\ pc = "done"
    /\ ListedOf(18, 20) = {18}
    /\ ListedOf(21, 31) = {21, 24, 27, 30}

\* a finished run on a site that holds v4 and latest and not v1, v2, v3:
\* versions/ is there and nothing is listed
NumbersMissingTagsThere ==
    /\ pc = "done"
    /\ run.result.versionInfo.exists /\ run.result.versionInfo.versions = <<>>
    /\ Absent(1) /\ Absent(2) /\ Absent(3) /\ ~Absent(4) /\ ~Absent(27)
====
